---------------------------- MODULE Spec2Model ----------------------------
(***************************************************************************)
(* A model of baton-avalara: the Avalara REST client (pkg/client), the     *)
(* user and role resource builders (pkg/connector) and the host's paging   *)
(* loop that drives them.                                                  *)
(*                                                                         *)
(* Conventions.                                                            *)
(*   - A Go string is a sequence of tokens (TLA+ strings).  Text that the  *)
(*     program takes apart (URLs, query strings, decimal numbers, Basic    *)
(*     credentials) is tokenised at its delimiters: "://", "/", "?", "&",  *)
(*     "=", "$", " ", one token per digit, one token per credential        *)
(*     character.  The empty string is << >>, concatenation is \o.         *)
(*   - A Go pointer is a sequence of length 0 (nil) or 1 (the object).     *)
(*   - A Go error is the chain of its layers, outermost first; nil is      *)
(*     << >>.  fmt.Errorf("...%w", e) puts one layer in front of e.        *)
(*   - A JSON text is either the marker NotJSON (not well-formed) or the   *)
(*     value it denotes, a record tagged by its JSON type.                 *)
(***************************************************************************)
EXTENDS Integers, Sequences, FiniteSets, TLC

VARIABLES
    client,      \* the AvalaraClient: baseURL, credentials, clientHeader
    options,     \* the caller's *PaginationOptions (a pointer)
    rt,          \* the http RoundTripper behind the client
    ret,         \* what the last call returned, with the request it issued
    lastCreds,   \* the arguments of the most recent AddCredentials call
    drv,         \* the host's paging loop over a resource syncer
    run,         \* the command-line run: its configuration and how far it got
    conc,        \* the calls the host has in flight concurrently
    tally        \* accessor calls made and requests handed to the transport

vars == <<client, options, rt, ret, lastCreds, drv, run, conc, tally>>

(***************************************************************************)
(* Strings                                                                 *)
(***************************************************************************)
Empty == << >>

S(tok) == <<tok>>

RECURSIVE Join(_, _)
\* strings.Join(parts, sep), parts a sequence of strings
Join(parts, sep) ==
    IF Len(parts) = 0 THEN Empty
    ELSE IF Len(parts) = 1 THEN parts[1]
    ELSE parts[1] \o sep \o Join(Tail(parts), sep)

\* The index of the first occurrence of token tok in s, 0 when absent.
IndexOf(s, tok) ==
    IF \E i \in 1..Len(s) : s[i] = tok
    THEN CHOOSE i \in 1..Len(s) : s[i] = tok /\ \A j \in 1..(i - 1) : s[j] # tok
    ELSE 0

\* strings.Cut(s, tok): the text before and after the first tok.
Cut(s, tok) ==
    LET i == IndexOf(s, tok) IN
    IF i = 0 THEN [before |-> s, after |-> Empty, found |-> FALSE]
    ELSE [before |-> SubSeq(s, 1, i - 1), after |-> SubSeq(s, i + 1, Len(s)),
          found |-> TRUE]

RECURSIVE Split(_, _)
\* strings.Split(s, tok) for a non-empty s; the empty text has no parts.
Split(s, tok) ==
    IF Len(s) = 0 THEN << >>
    ELSE LET c == Cut(s, tok) IN
         IF c.found THEN <<c.before>> \o
                         (IF Len(c.after) = 0 THEN <<Empty>> ELSE Split(c.after, tok))
         ELSE <<s>>

\* strings.ToLower on the letter tokens the model uses.
LowerTok(tok) ==
    CASE tok = "HTTPS" -> "https"
      [] tok = "HTTP" -> "http"
      [] tok = "AccountUser" -> "accountuser"
      [] tok = "AccountAdmin" -> "accountadmin"
      [] tok \in {"Sandbox", "SANDBOX"} -> "sandbox"
      [] tok \in {"Production", "PRODUCTION"} -> "production"
      [] OTHER -> tok

ToLower(s) == [i \in 1..Len(s) |-> LowerTok(s[i])]

(***************************************************************************)
(* strconv                                                                 *)
(***************************************************************************)
Digits == <<"0", "1", "2", "3", "4", "5", "6", "7", "8", "9">>

RECURSIVE ItoaNat(_)
ItoaNat(n) ==
    IF n < 10 THEN <<Digits[n + 1]>>
    ELSE ItoaNat(n \div 10) \o <<Digits[(n % 10) + 1]>>

\* strconv.Itoa
Itoa(n) == IF n < 0 THEN <<"-">> \o ItoaNat(-n) ELSE ItoaNat(n)

IsDigit(tok) == \E d \in 1..10 : Digits[d] = tok

DigitVal(tok) == (CHOOSE d \in 1..10 : Digits[d] = tok) - 1

RECURSIVE AtoiNat(_)
AtoiNat(s) ==
    IF Len(s) = 0 THEN 0
    ELSE AtoiNat(SubSeq(s, 1, Len(s) - 1)) * 10 + DigitVal(s[Len(s)])

\* strconv.Atoi: the number, or an error for text that is no decimal number.
Atoi(s) ==
    LET neg  == Len(s) > 0 /\ s[1] = "-"
        body == IF Len(s) > 0 /\ s[1] \in {"-", "+"} THEN Tail(s) ELSE s
    IN  IF Len(body) = 0 \/ \E i \in 1..Len(body) : ~IsDigit(body[i])
        THEN [ok |-> FALSE, n |-> 0]
        ELSE [ok |-> TRUE, n |-> IF neg THEN -AtoiNat(body) ELSE AtoiNat(body)]

(***************************************************************************)
(* encoding/base64, StdEncoding                                            *)
(***************************************************************************)
B64Alphabet ==
    <<"A", "B", "C", "D", "E", "F", "G", "H", "I", "J", "K", "L", "M",
      "N", "O", "P", "Q", "R", "S", "T", "U", "V", "W", "X", "Y", "Z",
      "a", "b", "c", "d", "e", "f", "g", "h", "i", "j", "k", "l", "m",
      "n", "o", "p", "q", "r", "s", "t", "u", "v", "w", "x", "y", "z",
      "0", "1", "2", "3", "4", "5", "6", "7", "8", "9", "+", "/">>

\* The characters credentials are written in, with their byte values.
CredChars == {"a", "e", "p", "r", "s", "t", "u", ":"}

Ord(ch) ==
    CASE ch = "a" -> 97
      [] ch = "e" -> 101
      [] ch = "p" -> 112
      [] ch = "r" -> 114
      [] ch = "s" -> 115
      [] ch = "t" -> 116
      [] ch = "u" -> 117
      [] ch = ":" -> 58

Bytes(s) == [i \in 1..Len(s) |-> Ord(s[i])]

RECURSIVE EncodeToString(_)
\* base64.StdEncoding.EncodeToString on a sequence of bytes
EncodeToString(b) ==
    IF Len(b) = 0 THEN Empty
    ELSE IF Len(b) = 1 THEN
        <<B64Alphabet[(b[1] \div 4) + 1], B64Alphabet[((b[1] % 4) * 16) + 1], "=", "=">>
    ELSE IF Len(b) = 2 THEN
        <<B64Alphabet[(b[1] \div 4) + 1],
          B64Alphabet[((b[1] % 4) * 16 + (b[2] \div 16)) + 1],
          B64Alphabet[((b[2] % 16) * 4) + 1], "=">>
    ELSE
        <<B64Alphabet[(b[1] \div 4) + 1],
          B64Alphabet[((b[1] % 4) * 16 + (b[2] \div 16)) + 1],
          B64Alphabet[((b[2] % 16) * 4 + (b[3] \div 64)) + 1],
          B64Alphabet[(b[3] % 64) + 1]>>
        \o EncodeToString(SubSeq(b, 4, Len(b)))

IsB64Char(ch) == \E i \in 1..64 : B64Alphabet[i] = ch

B64Val(ch) == (CHOOSE i \in 1..64 : B64Alphabet[i] = ch) - 1

RECURSIVE DecodeQuads(_)
DecodeQuads(s) ==
    IF Len(s) = 0 THEN << >>
    ELSE LET a == B64Val(s[1])
             b == B64Val(s[2])
         IN  IF s[3] = "=" THEN <<a * 4 + (b \div 16)>>
             ELSE LET c == B64Val(s[3]) IN
                  IF s[4] = "=" THEN <<a * 4 + (b \div 16), (b % 16) * 16 + (c \div 4)>>
                  ELSE <<a * 4 + (b \div 16), (b % 16) * 16 + (c \div 4),
                         (c % 4) * 64 + B64Val(s[4])>>
                       \o DecodeQuads(SubSeq(s, 5, Len(s)))

\* base64.StdEncoding.DecodeString: the bytes, or an error for text that is
\* not padded base64.
DecodeString(s) ==
    LET n == Len(s)
        wellFormed ==
            /\ n % 4 = 0
            /\ \A i \in 1..n :
                  \/ IsB64Char(s[i])
                  \/ s[i] = "=" /\ i > n - 2 /\ \A j \in i..n : s[j] = "="
    IN  IF wellFormed THEN [ok |-> TRUE, bytes |-> DecodeQuads(s)]
        ELSE [ok |-> FALSE, bytes |-> << >>]

\* string(payload) for bytes of the credential alphabet
Chars(b) == [i \in 1..Len(b) |-> CHOOSE ch \in CredChars : Ord(ch) = b[i]]

(***************************************************************************)
(* net/url                                                                 *)
(***************************************************************************)
\* A byte below 0x20 or 0x7f, which url.Parse rejects.
IsCTL(tok) == tok = "<DEL>"

ZeroURL ==
    [Scheme |-> Empty, Host |-> Empty, Path |-> Empty, RawQuery |-> Empty,
     ForceQuery |-> FALSE]

CountTok(s, tok) == Cardinality({i \in 1..Len(s) : s[i] = tok})

\* url.Parse.  The token "://" stands for the ":" that ends the scheme and the
\* "//" that starts the authority.
UrlParse(raw) ==
    IF \E i \in 1..Len(raw) : IsCTL(raw[i])
    THEN [ok |-> FALSE, err |-> S("net/url: invalid control character in URL"),
          u |-> ZeroURL]
    ELSE IF Len(raw) >= 1 /\ raw[1] = "://"
    THEN [ok |-> FALSE, err |-> S("missing protocol scheme"), u |-> ZeroURL]
    ELSE
      LET hasScheme == Len(raw) >= 2 /\ raw[2] = "://"
          scheme == IF hasScheme THEN ToLower(S(raw[1])) ELSE Empty
          rest0  == IF hasScheme THEN SubSeq(raw, 3, Len(raw)) ELSE raw
          force  == /\ Len(rest0) > 0
                    /\ rest0[Len(rest0)] = "?"
                    /\ CountTok(rest0, "?") = 1
          q      == Cut(rest0, "?")
          rest   == IF force THEN SubSeq(rest0, 1, Len(rest0) - 1) ELSE q.before
          rawq   == IF force THEN Empty ELSE q.after
          slash  == IndexOf(rest, "/")
          host   == IF ~hasScheme THEN Empty
                    ELSE IF slash = 0 THEN rest
                    ELSE SubSeq(rest, 1, slash - 1)
          path   == IF ~hasScheme THEN rest
                    ELSE IF slash = 0 THEN Empty
                    ELSE SubSeq(rest, slash, Len(rest))
      IN  [ok |-> TRUE, err |-> Empty,
           u |-> [Scheme |-> scheme, Host |-> host, Path |-> path,
                  RawQuery |-> rawq, ForceQuery |-> force]]

\* URL.EscapedPath: the path with the bytes a path may not hold escaped.
EscapedPath(path) == [i \in 1..Len(path) |-> IF path[i] = " " THEN "%20" ELSE path[i]]

\* URL.String
UrlString(u) ==
    (IF u.Scheme # Empty THEN u.Scheme \o S("://") ELSE Empty)
    \o u.Host
    \o EscapedPath(u.Path)
    \o (IF u.ForceQuery \/ u.RawQuery # Empty THEN S("?") \o u.RawQuery ELSE Empty)

\* url.QueryEscape, token by token
EscapeTok(tok) ==
    CASE tok = "$" -> S("%24")
      [] tok = " " -> S("+")
      [] tok = "=" -> S("%3D")
      [] tok = "&" -> S("%26")
      [] tok = "'" -> S("%27")
      [] tok = "/" -> S("%2F")
      [] tok = "?" -> S("%3F")
      [] tok = "+" -> S("%2B")
      [] tok = "://" -> <<"%3A", "%2F", "%2F">>
      [] OTHER -> S(tok)

RECURSIVE QueryEscape(_)
QueryEscape(s) ==
    IF Len(s) = 0 THEN Empty ELSE EscapeTok(s[1]) \o QueryEscape(Tail(s))

UnescapeTok(tok) ==
    CASE tok = "%24" -> "$"
      [] tok = "+" -> " "
      [] tok = "%20" -> " "
      [] tok = "%3D" -> "="
      [] tok = "%26" -> "&"
      [] tok = "%27" -> "'"
      [] tok = "%2F" -> "/"
      [] tok = "%3F" -> "?"
      [] tok = "%2B" -> "+"
      [] tok = "%3A" -> ":"
      [] OTHER -> tok

\* url.QueryUnescape; a bare "%" is an invalid escape.
QueryUnescape(s) ==
    IF \E i \in 1..Len(s) : s[i] = "%"
    THEN [ok |-> FALSE, s |-> Empty]
    ELSE [ok |-> TRUE, s |-> [i \in 1..Len(s) |-> UnescapeTok(s[i])]]

\* url.Values: a function from keys to the sequence of each key's values.
NoValues == [k \in {} |-> << >>]

ValuesAdd(m, k, v) ==
    [x \in DOMAIN m \cup {k} |->
        IF x = k THEN (IF k \in DOMAIN m THEN Append(m[k], v) ELSE <<v>>) ELSE m[x]]

\* Values.Set
ValuesSet(m, k, v) == [x \in DOMAIN m \cup {k} |-> IF x = k THEN <<v>> ELSE m[x]]

\* Values.Get
ValuesGet(m, k) == IF k \in DOMAIN m /\ Len(m[k]) > 0 THEN m[k][1] ELSE Empty

RECURSIVE ParsePairs(_, _)
ParsePairs(parts, m) ==
    IF Len(parts) = 0 THEN m
    ELSE LET part == parts[1]
             kv   == Cut(part, "=")
             k    == QueryUnescape(kv.before)
             v    == QueryUnescape(kv.after)
         IN  IF part = Empty \/ ~k.ok \/ ~v.ok
             THEN ParsePairs(Tail(parts), m)
             ELSE ParsePairs(Tail(parts), ValuesAdd(m, k.s, v.s))

\* url.ParseQuery, as URL.Query uses it: malformed pairs are dropped.
ParseQuery(rawq) == ParsePairs(Split(rawq, "&"), NoValues)

\* URL.Query
UrlQuery(u) == ParseQuery(u.RawQuery)

\* The query keys the model meets, in byte order (sort.Strings).
KnownKeys ==
    << <<"$", "filter">>, <<"$", "include">>, <<"$", "orderBy">>,
       <<"$", "orderby">>, <<"$", "skip">>, <<"$", "top">> >>

RECURSIVE SetToSeq(_)
SetToSeq(set) ==
    IF set = {} THEN << >>
    ELSE LET x == CHOOSE y \in set : TRUE IN <<x>> \o SetToSeq(set \ {x})

SortedKeys(m) ==
    SelectSeq(KnownKeys, LAMBDA k : k \in DOMAIN m)
    \o SetToSeq(DOMAIN m \ {KnownKeys[i] : i \in 1..Len(KnownKeys)})

RECURSIVE EncodeKey(_, _)
EncodeKey(k, vs) ==
    IF Len(vs) = 0 THEN << >>
    ELSE <<QueryEscape(k) \o S("=") \o QueryEscape(vs[1])>> \o EncodeKey(k, Tail(vs))

RECURSIVE EncodeKeys(_, _)
EncodeKeys(keys, m) ==
    IF Len(keys) = 0 THEN << >>
    ELSE EncodeKey(keys[1], m[keys[1]]) \o EncodeKeys(Tail(keys), m)

\* Values.Encode: "k=v" pairs sorted by key, escaped, joined by "&".
ValuesEncode(m) == Join(EncodeKeys(SortedKeys(m), m), S("&"))

(***************************************************************************)
(* encoding/json                                                           *)
(***************************************************************************)
JNull == [t |-> "null"]
JStr(s) == [t |-> "string", s |-> s]
JNum(n) == [t |-> "number", n |-> n]
JBool(b) == [t |-> "bool", b |-> b]
JArr(a) == [t |-> "array", a |-> a]
JObj(o) == [t |-> "object", o |-> o]
\* A body that is no JSON text, with the decoder's complaint.
NotJSON(why) == [t |-> "invalid", why |-> why]

\* Go types, as the decoder sees them.
TString == [k |-> "string"]
TInt == [k |-> "int"]
TBool == [k |-> "bool"]
TSlice(elem) == [k |-> "slice", elem |-> elem]
TStruct(name, fields) == [k |-> "struct", name |-> name, fields |-> fields]
Field(go, json, ty) == [go |-> go, json |-> json, ty |-> ty]

TypeName(T) ==
    CASE T.k = "slice" -> <<"[]", IF T.elem.k = "struct" THEN T.elem.name ELSE T.elem.k>>
      [] T.k = "struct" -> <<T.name>>
      [] OTHER -> <<T.k>>

RECURSIVE Zero(_)
Zero(T) ==
    CASE T.k = "string" -> Empty
      [] T.k = "int" -> 0
      [] T.k = "bool" -> FALSE
      [] T.k = "slice" -> << >>
      [] T.k = "struct" ->
            [g \in {T.fields[i].go : i \in 1..Len(T.fields)} |->
                Zero((CHOOSE f \in {T.fields[i] : i \in 1..Len(T.fields)} : f.go = g).ty)]

TypeError(j, T) ==
    <<"json: cannot unmarshal ", j.t, " into Go value of type ">> \o TypeName(T)

RECURSIVE ConcatAll(_)
ConcatAll(ss) == IF Len(ss) = 0 THEN << >> ELSE ss[1] \o ConcatAll(Tail(ss))

RECURSIVE Decode(_, _)
\* The decoder's walk over a well-formed JSON value: null leaves the zero
\* value, a value of the wrong JSON type leaves the zero value and records an
\* UnmarshalTypeError, object keys no field names are skipped.
Decode(j, T) ==
    IF j.t = "null" THEN [v |-> Zero(T), errs |-> << >>]
    ELSE CASE T.k = "string" ->
                 IF j.t = "string" THEN [v |-> j.s, errs |-> << >>]
                 ELSE [v |-> Zero(T), errs |-> <<TypeError(j, T)>>]
           [] T.k = "int" ->
                 IF j.t = "number" THEN [v |-> j.n, errs |-> << >>]
                 ELSE [v |-> Zero(T), errs |-> <<TypeError(j, T)>>]
           [] T.k = "bool" ->
                 IF j.t = "bool" THEN [v |-> j.b, errs |-> << >>]
                 ELSE [v |-> Zero(T), errs |-> <<TypeError(j, T)>>]
           [] T.k = "slice" ->
                 IF j.t = "array"
                 THEN LET ds == [i \in 1..Len(j.a) |-> Decode(j.a[i], T.elem)]
                      IN  [v |-> [i \in 1..Len(ds) |-> ds[i].v],
                           errs |-> ConcatAll([i \in 1..Len(ds) |-> ds[i].errs])]
                 ELSE [v |-> Zero(T), errs |-> <<TypeError(j, T)>>]
           [] T.k = "struct" ->
                 IF j.t = "object"
                 THEN LET fs == T.fields
                          ds == [i \in 1..Len(fs) |->
                                    IF fs[i].json \in DOMAIN j.o
                                    THEN Decode(j.o[fs[i].json], fs[i].ty)
                                    ELSE [v |-> Zero(fs[i].ty), errs |-> << >>]]
                      IN  [v |-> [g \in {fs[i].go : i \in 1..Len(fs)} |->
                                    ds[CHOOSE i \in 1..Len(fs) : fs[i].go = g].v],
                           errs |-> ConcatAll([i \in 1..Len(fs) |-> ds[i].errs])]
                 ELSE [v |-> Zero(T), errs |-> <<TypeError(j, T)>>]

\* json.Unmarshal(body, &v) into a zero v: the error (nil when none) and
\* what v holds afterwards.
Unmarshal(body, T) ==
    IF body.t = "invalid" THEN [err |-> body.why, v |-> Zero(T)]
    ELSE LET d == Decode(body, T)
         IN  [err |-> IF Len(d.errs) = 0 THEN Empty ELSE d.errs[1], v |-> d.v]

(***************************************************************************)
(* errors                                                                  *)
(***************************************************************************)
Nil == << >>

Layer(kind, msg, e) ==
    [kind |-> kind, msg |-> msg, Code |-> e.Code, Message |-> e.Message,
     Target |-> e.Target, Details |-> e.Details]

NoFields == [Code |-> Empty, Message |-> Empty, Target |-> Empty, Details |-> Empty]

\* errors.New(msg), fmt.Errorf(msg) without %w
ErrorString(msg) == <<Layer("errorString", msg, NoFields)>>

\* err.Error()
ErrorText(err) == err[1].msg

\* fmt.Errorf(prefix + "%w", err)
Wrap(prefix, err) == <<Layer("wrapError", prefix \o ErrorText(err), NoFields)>> \o err

\* errors.As(err, **AvalaraError): the first AvalaraError of the chain.
AsAvalaraError(err) ==
    LET hits == SelectSeq(err, LAMBDA l : l.kind = "AvalaraError")
    IN  IF Len(hits) = 0 THEN Nil ELSE <<hits[1]>>

(***************************************************************************)
(* pkg/client: the Avalara API client                                      *)
(***************************************************************************)
ProductionBaseURL == <<"https", "://", "rest.avatax.com">>
SandboxBaseURL == <<"https", "://", "sandbox-rest.avatax.com">>
TestBaseURL == <<"http", "://", "localhost:8080">>

RolesEndpoint == <<"/", "api", "/", "v2", "/", "definitions", "/", "securityroles">>
AccountsEndpoint == <<"/", "api", "/", "v2", "/", "accounts">>
UsersEndpoint == <<"/", "api", "/", "v2", "/", "users">>
PermissionsEndpoint == <<"/", "api", "/", "v2", "/", "definitions", "/", "permissions">>
PingEndpoint == <<"/", "api", "/", "v2", "/", "utilities", "/", "ping">>
\* fmt.Sprintf("/api/v2/accounts/%d/users/%d/entitlements", accountID, userID)
EntitlementsEndpoint(accountID, userID) ==
    <<"/", "api", "/", "v2", "/", "accounts", "/">> \o Itoa(accountID)
    \o <<"/", "users", "/">> \o Itoa(userID) \o <<"/", "entitlements">>

\* type PaginationOptions
PaginationOptions(top, skip, orderBy, filter, nextLink) ==
    [Top |-> top, Skip |-> skip, OrderBy |-> orderBy, Filter |-> filter,
     NextLink |-> nextLink]

\* strings.HasPrefix(strings.ToLower(environment), "http")
HasHTTPPrefix(environment) ==
    Len(environment) > 0 /\ LowerTok(environment[1]) \in {"http", "https"}

NewAvalaraClient(environment) ==
    LET baseURL ==
            IF HasHTTPPrefix(environment) THEN environment
            ELSE CASE environment = S("sandbox") -> SandboxBaseURL
                   [] environment = S("test") -> TestBaseURL
                   [] OTHER -> ProductionBaseURL
        appName == "baton-avalara"
        appVersion == "1.0.0"
        \* fmt.Sprintf("%s; %s; Go SDK; API_VERSION", appName, appVersion)
        clientID == <<appName, "; ", appVersion, "; Go SDK; API_VERSION">>
    IN  [baseURL |-> baseURL, credentials |-> Empty, clientHeader |-> clientID]

\* A variant that joins the pair without the colon.
AddCredentialsNoColon(c, username, password) ==
    [c EXCEPT !.credentials = EncodeToString(Bytes(username \o password))]

AddCredentials(c, username, password) ==
    [c EXCEPT !.credentials = EncodeToString(Bytes(username \o S(":") \o password))]

\* type AvalaraError
AvalaraErrorT ==
    TStruct("AvalaraError",
            <<Field("Code", "code", TString), Field("Message", "message", TString),
              Field("Target", "target", TString), Field("Details", "details", TString)>>)

\* type AvalaraErrorResponse
AvalaraErrorResponse ==
    TStruct("AvalaraErrorResponse", <<Field("Error", "error", AvalaraErrorT)>>)

\* func (e *AvalaraError) Error() string
AvalaraErrorText(e) ==
    S("AvalaraError: ") \o e.Message \o S(" (Code: ") \o e.Code \o S(", Target: ")
    \o e.Target \o S(", Details: ") \o e.Details \o S(")")

\* An *AvalaraError as an error value
AvalaraErr(e) == <<Layer("AvalaraError", AvalaraErrorText(e), e)>>

AccountModel ==
    TStruct("AccountModel",
            <<Field("ID", "id", TInt), Field("Name", "name", TString),
              Field("EffectiveDate", "effectiveDate", TString),
              Field("AccountStatusID", "accountStatusId", TString),
              Field("AccountTypeID", "accountTypeId", TString),
              Field("IsSamlEnabled", "isSamlEnabled", TBool),
              Field("IsDeleted", "isDeleted", TBool)>>)

UserModel ==
    TStruct("UserModel",
            <<Field("ID", "id", TInt), Field("AccountID", "accountId", TInt),
              Field("CompanyID", "companyId", TInt),
              Field("UserName", "userName", TString),
              Field("FirstName", "firstName", TString),
              Field("LastName", "lastName", TString),
              Field("Email", "email", TString),
              Field("PostalCode", "postalCode", TString),
              Field("SecurityRoleID", "securityRoleId", TString),
              Field("PasswordStatus", "passwordStatus", TString),
              Field("IsActive", "isActive", TBool),
              Field("SuppressNewUserEmail", "suppressNewUserEmail", TBool),
              Field("IsDeleted", "isDeleted", TBool)>>)

SecurityRoleModel ==
    TStruct("SecurityRoleModel",
            <<Field("ID", "id", TInt), Field("Description", "description", TString)>>)

\* The envelope of a list endpoint: AccountResponse, UserResponse,
\* SecurityRoleResponse and PermissionResponse differ in the element type.
Envelope(name, elem) ==
    TStruct(name,
            <<Field("RecordsetCount", "@recordsetCount", TInt),
              Field("Value", "value", TSlice(elem)),
              Field("NextLink", "@nextLink", TString),
              Field("PageKey", "pageKey", TString)>>)

AccountResponse == Envelope("AccountResponse", AccountModel)
UserResponse == Envelope("UserResponse", UserModel)
SecurityRoleResponse == Envelope("SecurityRoleResponse", SecurityRoleModel)
PermissionResponse == Envelope("PermissionResponse", TString)

EntitlementResponse ==
    TStruct("EntitlementResponse",
            <<Field("Permissions", "permissions", TSlice(TString)),
              Field("AccessLevel", "accessLevel", TString),
              Field("Companies", "companies", TSlice(TInt))>>)

PingResponse ==
    TStruct("PingResponse",
            <<Field("Version", "version", TString),
              Field("Authenticated", "authenticated", TBool),
              Field("AuthenticationType", "authenticationType", TString),
              Field("AuthenticatedUserName", "authenticatedUserName", TString),
              Field("AuthenticatedUserID", "authenticatedUserId", TInt),
              Field("AuthenticatedAccountID", "authenticatedAccountId", TInt),
              Field("AuthenticatedCompanyID", "authenticatedCompanyId", TInt),
              Field("CRMID", "crmid", TString)>>)

\* func (r *...Response) GetNextLink() string
GetNextLink(response) == response.NextLink

(***************************************************************************)
(* The transport behind the client.  A mock round tripper answers every    *)
(* request with one canned response (or fails); the upstream API serves    *)
(* its role and user lists in pages, each page linking to the next.        *)
(***************************************************************************)
Min(a, b) == IF a < b THEN a ELSE b

\* An *http.Response; fail says whether the exchange broke before the
\* response arrived ("send") or while the body was read ("read").
Response(fail, status, body) == [fail |-> fail, StatusCode |-> status, Body |-> body]

RoleJSON(r) == JObj(("id" :> JNum(r.ID)) @@ ("description" :> JStr(r.Description)))

UserJSON(u) ==
    JObj(("id" :> JNum(u.ID)) @@ ("userName" :> JStr(u.UserName))
         @@ ("securityRoleId" :> JStr(u.SecurityRoleID))
         @@ ("isActive" :> JBool(u.IsActive))
         @@ (IF "IsDeleted" \in DOMAIN u
             THEN "isDeleted" :> JBool(u.IsDeleted) ELSE << >>))

\* The upstream list endpoints: $skip and $top select the page, capped at
\* the server's page size; @nextLink is present while items remain and,
\* on a server that links past its last page, on the last page that has
\* items.
ApiServe(tr, req) ==
    LET q     == UrlQuery(req.URL)
        skipA == Atoi(ValuesGet(q, <<"$", "skip">>))
        topA  == Atoi(ValuesGet(q, <<"$", "top">>))
        skip  == IF skipA.ok /\ skipA.n > 0 THEN skipA.n ELSE 0
        top   == IF topA.ok /\ topA.n > 0 THEN topA.n ELSE tr.pageSize
        items == IF req.URL.Path = RolesEndpoint
                 THEN [i \in 1..Len(tr.roles) |-> RoleJSON(tr.roles[i])]
                 ELSE [i \in 1..Len(tr.users) |-> UserJSON(tr.users[i])]
        start == Min(skip, Len(items))
        end   == Min(start + Min(top, tr.pageSize), Len(items))
        more  == end < Len(items) \/ (tr.trailing /\ start < end)
        link  == UrlString([req.URL EXCEPT
                     !.RawQuery = <<"$", "skip", "=">> \o Itoa(end)
                                  \o <<"&", "$", "top", "=">> \o Itoa(top),
                     !.ForceQuery = FALSE])
        page  == ("@recordsetCount" :> JNum(Len(items)))
                 @@ ("value" :> JArr(SubSeq(items, start + 1, end)))
    IN  IF req.URL.Path \notin {RolesEndpoint, UsersEndpoint}
        THEN Response("none", 404, NotJSON(S("invalid character 'N'")))
        ELSE Response("none", 200,
                      JObj(IF more THEN page @@ ("@nextLink" :> JStr(link)) ELSE page))

(***************************************************************************)
(* cmd/test-server: the bundled test server                                *)
(***************************************************************************)
\* The one pair of credentials the test server accepts.
TestUser == <<"t", "e", "s", "t", "u", "s", "e", "r">>
TestPass == <<"t", "e", "s", "t", "p", "a", "s", "s">>

\* func getBaseURL, BASE_URL unset
getBaseURL == <<"http", "://", "localhost:8080">>

\* http.Header.Get
HeaderGet(h, k) == IF k \in DOMAIN h THEN h[k] ELSE Empty

\* strconv.Atoi with its error dropped: skip, _ := strconv.Atoi(...)
AtoiOrZero(s) == IF Atoi(s).ok THEN Atoi(s).n ELSE 0

sendJSONResponse(data) == Response("none", 200, data)

\* func sendAuthError: 401, code AuthenticationException, message null
sendAuthError ==
    Response("none", 401,
             JObj("error" :> JObj(("code" :> JStr(S("AuthenticationException")))
                                  @@ ("message" :> JNull))))

\* func sendErrorResponse: details is a list of {"message": detail} objects
sendErrorResponse(statusCode, errorCode, message, target, details) ==
    Response("none", statusCode,
             JObj("error" :> JObj(("code" :> JStr(errorCode))
                                  @@ ("message" :> JStr(message))
                                  @@ ("target" :> JStr(target))
                                  @@ ("details" :>
                                        JArr([i \in 1..Len(details) |->
                                                JObj("message" :> JStr(details[i]))])))))

\* A slice expression out of range panics; net/http drops the connection
\* and the client's round trip fails.
Panicked == Response("send", 0, NotJSON(S("unexpected end of JSON input")))

\* mux: no handler for the path
NotFound == Response("none", 404, NotJSON(S("invalid character 'p' after top-level value")))

\* authMiddleware once the Authorization header was split at its first
\* space into parts and its second part decoded as payload.
CredentialsAccepted(parts, payload) ==
    /\ parts.found
    /\ parts.before = <<"Basic">>
    /\ payload.ok
    /\ Cut(payload.bytes, Ord(":")).found
    /\ Cut(payload.bytes, Ord(":")).before = Bytes(TestUser)
    /\ Cut(payload.bytes, Ord(":")).after = Bytes(TestPass)

\* authMiddleware: whether the request reaches its handler.
Authorized(req) ==
    /\ HeaderGet(req.Header, "Authorization") # Empty
    /\ CredentialsAccepted(Cut(HeaderGet(req.Header, "Authorization"), " "),
                           DecodeString(Cut(HeaderGet(req.Header, "Authorization"), " ").after))
    /\ HeaderGet(req.Header, "X-Avalara-Client") # Empty

\* handleSecurityRoles once $skip was read, for a request without $filter
\* (the builders send none): the roles from skip on and, on the first
\* request only, a link to the page after the last role.
securityRolesPage(roles, skip, filter) ==
    IF skip < 0 \/ skip > Len(roles) THEN Panicked
    ELSE sendJSONResponse(JObj(
        ("@recordsetCount" :> JNum(Len(roles)))
        @@ ("value" :> JArr([i \in 1..(Len(roles) - skip) |-> RoleJSON(roles[skip + i])]))
        @@ (IF skip = 0 /\ Len(roles) > 0
            THEN "@nextLink" :>
                    JStr(getBaseURL \o RolesEndpoint
                         \o <<"?", "$", "skip", "=">> \o Itoa(Len(roles))
                         \o <<"&", "$", "top", "=">> \o Itoa(Len(roles))
                         \o <<"&", "$", "filter", "=">> \o filter)
            ELSE << >>)))

handleSecurityRoles(roles, q) ==
    securityRolesPage(roles, AtoiOrZero(ValuesGet(q, <<"$", "skip">>)),
                      ValuesGet(q, <<"$", "filter">>))

\* A variant that links to the next page also from the last one.
usersPageTrailingLink(users, top, skip, end) ==
    IF skip < 0 \/ skip > end THEN Panicked
    ELSE sendJSONResponse(JObj(
        ("@recordsetCount" :> JNum(Len(users)))
        @@ ("value" :> JArr([i \in 1..(end - skip) |-> UserJSON(users[skip + i])]))
        @@ ("@nextLink" :>
                JStr(getBaseURL \o UsersEndpoint
                     \o <<"?", "$", "skip", "=">> \o Itoa(skip + (end - skip))
                     \o <<"&", "$", "top", "=">> \o Itoa(top)
                     \o <<"&", "$", "filter", "=", "&", "$", "orderBy", "=",
                          "&", "$", "include", "=">>))))

\* handleUsers once $top and $skip were read and the page's bounds set,
\* for a request without $filter, $orderBy and $include.
usersPage(users, top, skip, end) ==
    IF skip < 0 \/ skip > end THEN Panicked
    ELSE sendJSONResponse(JObj(
        ("@recordsetCount" :> JNum(Len(users)))
        @@ ("value" :> JArr([i \in 1..(end - skip) |-> UserJSON(users[skip + i])]))
        @@ (IF end < Len(users)
            THEN "@nextLink" :>
                    JStr(getBaseURL \o UsersEndpoint
                         \o <<"?", "$", "skip", "=">> \o Itoa(skip + (end - skip))
                         \o <<"&", "$", "top", "=">> \o Itoa(top)
                         \o <<"&", "$", "filter", "=", "&", "$", "orderBy", "=",
                              "&", "$", "include", "=">>)
            ELSE << >>)))

usersBounds(users, top, skip) ==
    usersPage(users, top, skip,
              IF top > 0 THEN Min(skip + top, Len(users)) ELSE Len(users))

handleUsers(users, q) ==
    usersBounds(users, AtoiOrZero(ValuesGet(q, <<"$", "top">>)),
                AtoiOrZero(ValuesGet(q, <<"$", "skip">>)))

\* handlePermissions: the same page and the same link whatever the query
handlePermissions ==
    sendJSONResponse(JObj(
        ("@recordsetCount" :> JNum(3))
        @@ ("value" :> JArr(<<JStr(S("AccountSvc")), JStr(S("CompanySvc")), JStr(S("TaxSvc"))>>))
        @@ ("@nextLink" :> JStr(getBaseURL \o PermissionsEndpoint
                                \o <<"?", "$", "skip", "=", "3", "&", "$", "top", "=", "3">>))))

handleUserEntitlements ==
    sendJSONResponse(JObj(
        ("permissions" :> JArr(<<JStr(S("CompanyFetch")), JStr(S("CompanySave")),
                                 JStr(S("NexusFetch")), JStr(S("NexusSave"))>>))
        @@ ("accessLevel" :> JStr(S("SingleAccount")))
        @@ ("companies" :> JArr(<<JNum(123), JNum(456), JNum(789)>>))))

handlePing(req) ==
    IF HeaderGet(req.Header, "X-Avalara-Client") = Empty
    THEN sendErrorResponse(400, S("HeaderValidationException"),
                           S("Missing X-Avalara-Client header"), S("X-Avalara-Client"),
                           <<S("The X-Avalara-Client header is required for all API calls")>>)
    ELSE sendJSONResponse(JObj(
        ("version" :> JStr(S("24.8.2")))
        @@ ("authenticated" :> JBool(TRUE))
        @@ ("authenticationType" :> JStr(S("Basic")))
        @@ ("authenticatedUserName" :> JStr(S("testuser")))
        @@ ("authenticatedUserId" :> JNum(12345))
        @@ ("authenticatedAccountId" :> JNum(123456789))
        @@ ("crmid" :> JStr(S("some-crm-id")))))

\* The routes of func main, each behind authMiddleware.
TestServe(tr, req) ==
    IF req.URL.Path \notin {RolesEndpoint, UsersEndpoint, PermissionsEndpoint, PingEndpoint}
       /\ SubSeq(req.URL.Path, 1, 7) # <<"/", "api", "/", "v2", "/", "accounts", "/">>
    THEN NotFound
    ELSE IF ~Authorized(req) THEN sendAuthError
    ELSE CASE req.URL.Path = RolesEndpoint -> handleSecurityRoles(tr.roles, UrlQuery(req.URL))
           [] req.URL.Path = UsersEndpoint -> handleUsers(tr.users, UrlQuery(req.URL))
           [] req.URL.Path = PermissionsEndpoint -> handlePermissions
           [] req.URL.Path = PingEndpoint -> handlePing(req)
           [] OTHER -> handleUserEntitlements

\* The test server with the roles and the users it holds.
TestServer(roles, users) == [mode |-> "testserver", roles |-> roles, users |-> users]

\* http.RoundTripper.RoundTrip
RoundTrip(tr, req) ==
    CASE tr.mode = "mock" -> tr.response
      [] tr.mode = "testserver" -> TestServe(tr, req)
      [] OTHER -> ApiServe(tr, req)

MockTransport(response) == [mode |-> "mock", response |-> response]

ApiTransport(roles, users, pageSize, trailing) ==
    [mode |-> "api", roles |-> roles, users |-> users, pageSize |-> pageSize,
     trailing |-> trailing]

(***************************************************************************)
(* AvalaraClient.get and the accessors                                     *)
(***************************************************************************)
\* A variant that sends $top and $skip unless they are negative.
SetQueryFromZero(query, o) ==
    LET q1 == IF o.Top >= 0 THEN ValuesSet(query, <<"$", "top">>, Itoa(o.Top)) ELSE query
        q2 == IF o.Skip >= 0 THEN ValuesSet(q1, <<"$", "skip">>, Itoa(o.Skip)) ELSE q1
        q3 == IF o.OrderBy # Empty THEN ValuesSet(q2, <<"$", "orderby">>, o.OrderBy) ELSE q2
    IN  IF o.Filter # Empty THEN ValuesSet(q3, <<"$", "filter">>, o.Filter) ELSE q3

\* The query of a fresh request: get's four query.Set steps.
SetQuery(query, o) ==
    LET q1 == IF o.Top > 0 THEN ValuesSet(query, <<"$", "top">>, Itoa(o.Top)) ELSE query
        q2 == IF o.Skip > 0 THEN ValuesSet(q1, <<"$", "skip">>, Itoa(o.Skip)) ELSE q1
        q3 == IF o.OrderBy # Empty THEN ValuesSet(q2, <<"$", "orderby">>, o.OrderBy) ELSE q2
        q4 == IF o.Filter # Empty THEN ValuesSet(q3, <<"$", "filter">>, o.Filter) ELSE q3
    IN  q4

\* A variant that rebuilds the query whenever there are options, as the
\* client did before continuation links.
HasOptions(opts) == opts # Nil

\* Whether get rebuilds the query of the parsed URL from the options.
BuildsQuery(opts) == opts # Nil /\ opts[1].NextLink = Empty

\* The target URL of get: the continuation link if there is one, else the
\* base URL and endpoint with the options as query parameters.
TargetURL(c, endpoint, opts) ==
    LET p == IF opts # Nil /\ opts[1].NextLink # Empty
             THEN UrlParse(opts[1].NextLink)
             ELSE UrlParse(c.baseURL \o endpoint)
    IN  IF ~p.ok THEN p
        ELSE IF BuildsQuery(opts)
        THEN [p EXCEPT !.u.RawQuery = ValuesEncode(SetQuery(UrlQuery(p.u), opts[1]))]
        ELSE p

\* The headers get sets on every request.
SetHeaders(c) ==
    ("Authorization" :> (<<"Basic", " ">> \o c.credentials))
    @@ ("X-Avalara-Client" :> c.clientHeader)
    @@ ("Content-Type" :> S("application/json"))
    @@ ("Accept" :> S("application/json"))

\* uhttp NewRequest: http.NewRequestWithContext(ctx, method, u.String(), nil)
NewRequest(method, u) ==
    LET p == UrlParse(UrlString(u))
    IN  [ok |-> p.ok, err |-> p.err,
         req |-> [Method |-> method, URL |-> p.u, Header |-> << >>]]

\* A variant that lets status 300 through.
IsErrorStatusAbove300(status) == status < 200 \/ status > 300

\* Whether get takes a status code for a failure.
IsErrorStatus(status) == status < 200 \/ status >= 300

\* What get makes of a response whose status is an error.
StatusError(resp) ==
    LET e == Unmarshal(resp.Body, AvalaraErrorResponse)
    IN  IF e.err = Nil /\ e.v.Error.Code # Empty
        THEN AvalaraErr(e.v.Error)
        ELSE ErrorString(S("unexpected status code: ") \o Itoa(resp.StatusCode))

\* A variant that reports a decode failure as a plain error.
PlainDecodeError(decodeErr) ==
    <<Layer("errorString", S("error decoding response: ") \o decodeErr, NoFields)>>

\* What get makes of a body that does not decode into the result.
FormatError(decodeErr) ==
    AvalaraErr([Code |-> S("FormatException"),
                Message |-> S("The server returned the response in an unexpected format"),
                Target |-> Empty,
                Details |-> decodeErr])

\* func (c *AvalaraClient) get(ctx, endpoint, options, result) error, in
\* the order of its steps. The outcome is a record: err is the error, result
\* what the result variable holds afterwards, reqs the requests issued and
\* resps the responses received.
Outcome(err, result, reqs, resps) ==
    [err |-> err, result |-> result, reqs |-> reqs, resps |-> resps]

\* json.Unmarshal(body, result) has run and left d.
getDecoded(req, resp, d) ==
    IF d.err # Nil
    THEN Outcome(FormatError(d.err), d.v, <<req>>, <<resp>>)
    ELSE Outcome(Nil, d.v, <<req>>, <<resp>>)

\* c.httpClient.Do(req) has returned resp.
getResponse(T, req, resp) ==
    IF resp.fail = "send"
    THEN Outcome(Wrap(S("error sending request: "), ErrorString(S("round trip failed"))),
                 Zero(T), <<req>>, <<resp>>)
    ELSE IF resp.fail = "read"
    THEN Outcome(Wrap(S("failed to read response body: "), ErrorString(S("unexpected EOF"))),
                 Zero(T), <<req>>, <<resp>>)
    ELSE IF IsErrorStatus(resp.StatusCode)
    THEN Outcome(StatusError(resp), Zero(T), <<req>>, <<resp>>)
    ELSE getDecoded(req, resp, Unmarshal(resp.Body, T))

\* What a second attempt would leave: the request sent twice.
Again(o) == [o EXCEPT !.reqs = @ \o @, !.resps = @ \o @]

\* A variant that sends the request once more when the transport failed.
getSendRetry(T, tr, req) ==
    IF RoundTrip(tr, req).fail = "none"
    THEN getResponse(T, req, RoundTrip(tr, req))
    ELSE Again(getResponse(T, req, RoundTrip(tr, req)))

\* The request carries its headers and goes out.
getSend(T, tr, req) == getResponse(T, req, RoundTrip(tr, req))

\* c.httpClient.NewRequest has returned nr.
getRequest(c, T, tr, nr) ==
    IF ~nr.ok
    THEN Outcome(Wrap(S("error creating request: "), ErrorString(nr.err)),
                 Zero(T), << >>, << >>)
    ELSE getSend(T, tr, [nr.req EXCEPT !.Header = SetHeaders(c)])

\* The target URL has been parsed and its query set: p.
getParsed(c, T, tr, p) ==
    IF ~p.ok
    THEN Outcome(Wrap(S("error parsing URL: "), ErrorString(p.err)),
                 Zero(T), << >>, << >>)
    ELSE getRequest(c, T, tr, NewRequest("GET", p.u))

get(c, endpoint, opts, T, tr) == getParsed(c, T, tr, TargetURL(c, endpoint, opts))

\* A variant that hands the options back as they came.
KeepNextLink(opts, response) ==
    IF opts = Nil THEN <<PaginationOptions(0, 0, Empty, Empty, Empty)>> ELSE opts

\* func updatePaginationOptions(options, response) *PaginationOptions
updatePaginationOptions(opts, response) ==
    LET o == IF opts = Nil THEN PaginationOptions(0, 0, Empty, Empty, Empty)
             ELSE opts[1]
    IN  <<[o EXCEPT !.NextLink = GetNextLink(response)]>>

\* A variant that clears the link of the caller's options when get fails.
PaginatedReturnCleared(opts, g) ==
    IF g.err # Nil
    THEN [result |-> Nil,
          next |-> IF opts = Nil THEN Nil ELSE <<[opts[1] EXCEPT !.NextLink = Empty]>>,
          err |-> g.err, reqs |-> g.reqs, resps |-> g.resps]
    ELSE [result |-> <<g.result>>,
          next |-> updatePaginationOptions(opts, g.result),
          err |-> Nil, reqs |-> g.reqs, resps |-> g.resps]

\* What a paginated accessor returns once get has returned g:
\* (result, options, error).
PaginatedReturn(opts, g) ==
    IF g.err # Nil
    THEN [result |-> Nil, next |-> opts, err |-> g.err,
          reqs |-> g.reqs, resps |-> g.resps]
    ELSE [result |-> <<g.result>>,
          next |-> updatePaginationOptions(opts, g.result),
          err |-> Nil, reqs |-> g.reqs, resps |-> g.resps]

\* The body shared by GetUserRoles, GetAccounts, GetUsers and GetPermissions.
Paginated(c, endpoint, opts, T, tr) ==
    PaginatedReturn(opts, get(c, endpoint, opts, T, tr))

GetUserRoles(c, opts, tr) == Paginated(c, RolesEndpoint, opts, SecurityRoleResponse, tr)

GetAccounts(c, opts, tr) == Paginated(c, AccountsEndpoint, opts, AccountResponse, tr)

GetUsers(c, opts, tr) == Paginated(c, UsersEndpoint, opts, UserResponse, tr)

GetPermissions(c, opts, tr) == Paginated(c, PermissionsEndpoint, opts, PermissionResponse, tr)

\* What GetUserEntitlements and Ping return once get has returned g:
\* (result, error), no options.
SingleReturn(g) ==
    [result |-> IF g.err # Nil THEN Nil ELSE <<g.result>>,
     next |-> Nil, err |-> g.err, reqs |-> g.reqs, resps |-> g.resps]

Single(c, endpoint, T, tr) == SingleReturn(get(c, endpoint, Nil, T, tr))

GetUserEntitlements(c, accountID, userID, tr) ==
    Single(c, EntitlementsEndpoint(accountID, userID), EntitlementResponse, tr)

Ping(c, tr) == Single(c, PingEndpoint, PingResponse, tr)

(***************************************************************************)
(* The client under test: fixtures, initial states and calls               *)
(***************************************************************************)
\* Longest username and password of the generated credentials.
MaxCredLen == 1

RECURSIVE StringsOver(_, _)
\* The strings of at most n tokens over an alphabet.
StringsOver(alphabet, n) ==
    IF n = 0 THEN {Empty}
    ELSE LET shorter == StringsOver(alphabet, n - 1)
         IN  shorter \cup {Append(s, a) : s \in shorter, a \in alphabet}

\* The (username, password) pairs AddCredentials is called with.
Credentials ==
    {<<u, p>> : u \in StringsOver({"a"}, MaxCredLen), p \in {Empty, S(":")}}
    \cup {<<TestUser, TestPass>>}

\* A base URL given in place of an environment name.
CustomBaseURL == <<"http", "://", "127.0.0.1:9090">>

Environments ==
    {Empty, S("sandbox"), S("test"), S("production"), S("staging"), S("Sandbox"),
     CustomBaseURL}

\* Continuation links as servers issue them.
\* "https://SandboxBaseDomain/api/v2/definitions/securityroles?$top=10&$skip=20"
LinkRoles ==
    <<"https", "://", "SandboxBaseDomain">> \o RolesEndpoint
    \o <<"?", "$", "top", "=", "1", "0", "&", "$", "skip", "=", "2", "0">>
\* "http://localhost:8080/api/v2/users?$skip=2&$top=2&$filter=&$orderBy=&$include="
LinkUsers ==
    TestBaseURL \o UsersEndpoint
    \o <<"?", "$", "skip", "=", "2", "&", "$", "top", "=", "2", "&", "$", "filter", "=",
         "&", "$", "orderBy", "=", "&", "$", "include", "=">>
\* A link url.Parse rejects.
LinkBad == <<"https", "://", "rest.avatax.com", "<DEL>">>

Links == {LinkRoles, LinkUsers, LinkBad}

OrderByID == <<"id", " ", "ASC">>
FilterID == <<"id", " ", "eq", " ", "1">>

AllOptions ==
    {Nil} \cup
    {<<PaginationOptions(top, skip, orderBy, filter, link)>> :
        top \in {-1, 0, 10}, skip \in {0, 5}, orderBy \in {Empty, OrderByID},
        filter \in {Empty, FilterID}, link \in {Empty} \cup Links}

FewOptions ==
    {Nil, <<PaginationOptions(10, 5, Empty, Empty, Empty)>>,
     <<PaginationOptions(2, 0, Empty, FilterID, LinkRoles)>>}

\* Response bodies.
BodyEmptyObject == JObj(<< >>)
BodyNoItems == JObj("value" :> JArr(<< >>))
BodyRoles(link) ==
    JObj(("@recordsetCount" :> JNum(2))
         @@ ("value" :> JArr(<<RoleJSON([ID |-> 1, Description |-> S("SystemAdmin")]),
                               RoleJSON([ID |-> 2, Description |-> S("AccountAdmin")])>>))
         @@ (IF link = Empty THEN << >> ELSE "@nextLink" :> JStr(link)))
BodyUsers ==
    JObj(("@recordsetCount" :> JNum(1))
         @@ ("value" :> JArr(<<UserJSON([ID |-> 1, UserName |-> S("bobm"),
                                         SecurityRoleID |-> S("AccountUser"),
                                         IsActive |-> TRUE])>>))
         @@ ("@nextLink" :> JStr(LinkUsers)))
BodyPermissions ==
    JObj(("@recordsetCount" :> JNum(2))
         @@ ("value" :> JArr(<<JStr(S("AccountSvc")), JStr(S("CompanySvc"))>>)))
BodyEntitlements ==
    JObj(("permissions" :> JArr(<<JStr(S("CompanyFetch"))>>))
         @@ ("accessLevel" :> JStr(S("SingleAccount")))
         @@ ("companies" :> JArr(<<JNum(123)>>)))
BodyPing ==
    JObj(("version" :> JStr(S("24.8.2"))) @@ ("authenticated" :> JBool(TRUE)))
BodyWrongType == JObj("value" :> JStr(S("oops")))
BodyNotJSON == NotJSON(S("invalid character '<' looking for beginning of value"))
BodyNone == NotJSON(S("unexpected end of JSON input"))
\* {"error": {"code": ..., "message": ...}} and its variants
ErrorBody(fields) == JObj("error" :> JObj(fields))
BodyErrorBrief ==
    ErrorBody(("code" :> JStr(S("AuthenticationException")))
              @@ ("message" :> JStr(S("bad creds"))))
BodyErrorFull ==
    ErrorBody(("code" :> JStr(S("EntityNotFoundError")))
              @@ ("message" :> JStr(S("not found")))
              @@ ("target" :> JStr(S("HttpRequest")))
              @@ ("details" :> JStr(S("no such entity"))))
\* the body of the test server's sendAuthError
BodyErrorNullMessage ==
    ErrorBody(("code" :> JStr(S("AuthenticationException"))) @@ ("message" :> JNull))
\* the body of the test server's sendErrorResponse: details is a list of objects
BodyErrorDetailsList ==
    ErrorBody(("code" :> JStr(S("HeaderValidationException")))
              @@ ("message" :> JStr(S("Missing X-Avalara-Client header")))
              @@ ("target" :> JStr(S("X-Avalara-Client")))
              @@ ("details" :> JArr(<<JObj("message" :> JStr(S("required")))>>)))
BodyErrorNoCode == ErrorBody("message" :> JStr(S("something failed")))
BodyErrorEmptyCode ==
    ErrorBody(("code" :> JStr(Empty)) @@ ("message" :> JStr(S("something failed"))))

Bodies ==
    {BodyEmptyObject, BodyNoItems, BodyRoles(LinkRoles), BodyRoles(Empty), BodyUsers,
     BodyPermissions, BodyEntitlements, BodyPing, BodyWrongType, BodyNotJSON, BodyNone,
     BodyErrorBrief, BodyErrorFull, BodyErrorNullMessage, BodyErrorDetailsList,
     BodyErrorNoCode, BodyErrorEmptyCode}

Statuses == {199, 200, 299, 300, 400, 401, 500}

AllResponses ==
    {Response("none", s, b) : s \in Statuses, b \in Bodies}
    \cup {Response(f, 0, BodyNone) : f \in {"send", "read"}}

PlainResponses ==
    {Response("none", 200, BodyNoItems), Response("none", 200, BodyRoles(LinkRoles))}

\* A fixture: the environment the client is built for, the options the
\* caller holds and the canned response of the mock transport.
Fixtures ==
    {<<e, o, r>> : e \in {S("sandbox")}, o \in AllOptions, r \in PlainResponses}
    \cup {<<e, o, r>> : e \in Environments, o \in FewOptions, r \in PlainResponses}
    \cup {<<e, o, r>> : e \in {S("sandbox")}, o \in FewOptions, r \in AllResponses}

NoCall ==
    [op |-> "none", args |-> Nil, result |-> Nil, next |-> Nil, err |-> Nil,
     reqs |-> << >>, resps |-> << >>]

Idle ==
    [phase |-> "idle", kind |-> "none", resource |-> Nil, token |-> Empty,
     acc |-> << >>, calls |-> 0, seen |-> << >>,
     stage |-> "none", idx |-> 0, entitlements |-> << >>, grants |-> << >>]

\* No command-line run: the client was built by the caller.
NotRun ==
    [phase |-> "none", username |-> Empty, password |-> Empty, environment |-> Empty,
     err |-> Nil]

\* No concurrent calls in flight.
NoProcs == << >>

\* No call made, no request sent.
NoTraffic == [calls |-> 0, sent |-> 0]

\* One more accessor call, and the requests it issued.
Tallied == [calls |-> tally.calls + 1, sent |-> tally.sent + Len(ret'.reqs)]

\* Most accessor calls made on the client under test.
MaxAccessorCalls == 2

Init ==
    \E f \in Fixtures :
        /\ client = NewAvalaraClient(f[1])
        /\ options = f[2]
        /\ rt = MockTransport(f[3])
        /\ ret = NoCall
        /\ lastCreds = Nil
        /\ drv = Idle
        /\ run = NotRun
        /\ conc = NoProcs
        /\ tally = NoTraffic

\* What a call leaves behind: the operation, its arguments, its outcome.
Returned(op, args, out) ==
    [op |-> op, args |-> args, result |-> out.result, next |-> out.next,
     err |-> out.err, reqs |-> out.reqs, resps |-> out.resps]

DoAddCredentials ==
    \E cred \in Credentials :
        /\ client' = AddCredentials(client, cred[1], cred[2])
        /\ lastCreds' = <<[username |-> cred[1], password |-> cred[2]]>>
        /\ ret' = [NoCall EXCEPT !.op = "AddCredentials"]
        /\ UNCHANGED <<options, rt, drv, run, conc, tally>>

\* A paginated accessor writes the next link into the options object the
\* caller passed; a nil pointer stays nil with the caller.
AfterCall == IF options = Nil THEN Nil ELSE ret'.next

CallGetUserRoles ==
    /\ tally.calls < MaxAccessorCalls
    /\ ret' = Returned("GetUserRoles", options, GetUserRoles(client, options, rt))
    /\ options' = AfterCall
    /\ tally' = Tallied
    /\ UNCHANGED <<client, rt, lastCreds, drv, run, conc>>

CallGetAccounts ==
    /\ tally.calls < MaxAccessorCalls
    /\ ret' = Returned("GetAccounts", options, GetAccounts(client, options, rt))
    /\ options' = AfterCall
    /\ tally' = Tallied
    /\ UNCHANGED <<client, rt, lastCreds, drv, run, conc>>

CallGetUsers ==
    /\ tally.calls < MaxAccessorCalls
    /\ ret' = Returned("GetUsers", options, GetUsers(client, options, rt))
    /\ options' = AfterCall
    /\ tally' = Tallied
    /\ UNCHANGED <<client, rt, lastCreds, drv, run, conc>>

CallGetPermissions ==
    /\ tally.calls < MaxAccessorCalls
    /\ ret' = Returned("GetPermissions", options, GetPermissions(client, options, rt))
    /\ options' = AfterCall
    /\ tally' = Tallied
    /\ UNCHANGED <<client, rt, lastCreds, drv, run, conc>>

CallGetUserEntitlements ==
    \E accountID \in {1, 12}, userID \in {7} :
        /\ tally.calls < MaxAccessorCalls
        /\ ret' = Returned("GetUserEntitlements", Nil,
                           GetUserEntitlements(client, accountID, userID, rt))
        /\ tally' = Tallied
        /\ UNCHANGED <<client, options, rt, lastCreds, drv, run, conc>>

CallPing ==
    /\ tally.calls < MaxAccessorCalls
    /\ ret' = Returned("Ping", Nil, Ping(client, rt))
    /\ tally' = Tallied
    /\ UNCHANGED <<client, options, rt, lastCreds, drv, run, conc>>

Next ==
    \/ DoAddCredentials
    \/ CallGetUserRoles
    \/ CallGetAccounts
    \/ CallGetUsers
    \/ CallGetPermissions
    \/ CallGetUserEntitlements
    \/ CallPing

Spec == Init /\ [][Next]_vars

(***************************************************************************)
(* Properties of the client                                                *)
(***************************************************************************)
PaginatedOps == {"GetUserRoles", "GetAccounts", "GetUsers", "GetPermissions"}

Accessors == PaginatedOps \cup {"GetUserEntitlements", "Ping"}

\* The endpoint and the result type of the paginated accessors.
EndpointOf(op) ==
    CASE op = "GetUserRoles" -> RolesEndpoint
      [] op = "GetAccounts" -> AccountsEndpoint
      [] op = "GetUsers" -> UsersEndpoint
      [] op = "GetPermissions" -> PermissionsEndpoint

ResultType(op) ==
    CASE op = "GetUserRoles" -> SecurityRoleResponse
      [] op = "GetAccounts" -> AccountResponse
      [] op = "GetUsers" -> UserResponse
      [] op = "GetPermissions" -> PermissionResponse
      [] op = "GetUserEntitlements" -> EntitlementResponse
      [] op = "Ping" -> PingResponse

\* The last call was an accessor that received an HTTP response.
Answered == ret.op \in Accessors /\ ret.resps # << >> /\ ret.resps[1].fail = "none"

InSuccessRange(status) == 200 =< status /\ status < 300

\* Member key of a JSON object, null when absent; the text of a JSON string.
JField(j, key) == IF j.t = "object" /\ key \in DOMAIN j.o THEN j.o[key] ELSE JNull
JText(j) == IF j.t = "string" THEN j.s ELSE Empty

\* The last call passed a continuation link.
Continues == ret.op \in PaginatedOps /\ ret.args # Nil /\ ret.args[1].NextLink # Empty

\* C1: a paginated accessor called with a non-empty NextLink requests
\* exactly that link: whatever the base URL, the endpoint and the other
\* option fields are, the URL of the request reads as the link, character
\* for character, and a link that parses is requested once.
C1_NextLinkVerbatim ==
    Continues =>
        /\ \A i \in 1..Len(ret.reqs) : UrlString(ret.reqs[i].URL) = ret.args[1].NextLink
        /\ UrlParse(ret.args[1].NextLink).ok => Len(ret.reqs) = 1

\* GetUsers went to the sandbox roles link although the client's base URL,
\* the endpoint and every other option say otherwise.
C1_Witness ==
    /\ ret.op = "GetUsers" /\ Continues
    /\ ret.args[1] = PaginationOptions(10, 5, OrderByID, FilterID, LinkRoles)
    /\ Len(ret.reqs) = 1
    /\ ret.reqs[1].URL.Path = RolesEndpoint
    /\ ret.reqs[1].URL.RawQuery = <<"$", "top", "=", "1", "0", "&", "$", "skip", "=", "2", "0">>

\* C5 (as stated): whenever the status is outside [200,300) and the body is
\* {"error": {...}} with a non-empty code, the accessor fails with an
\* AvalaraError carrying the body's code and message and returns no result.
C5_StructuredErrorSurfaced ==
    (/\ Answered
     /\ ~InSuccessRange(ret.resps[1].StatusCode)
     /\ JText(JField(JField(ret.resps[1].Body, "error"), "code")) # Empty)
    => /\ AsAvalaraError(ret.err) # Nil
       /\ AsAvalaraError(ret.err)[1].Code
              = JText(JField(JField(ret.resps[1].Body, "error"), "code"))
       /\ AsAvalaraError(ret.err)[1].Message
              = JText(JField(JField(ret.resps[1].Body, "error"), "message"))
       /\ ret.result = Nil

\* The target type rejects the body of the response.
Undecodable == Unmarshal(ret.resps[1].Body, ResultType(ret.op)).err # Empty

\* C6: when the status is in [200,300) and the body does not decode into
\* the target type, the accessor fails with an AvalaraError of code
\* FormatException whose details are the text of the decode error; the
\* error is not the status-code error and no result is returned.
C6_FormatException ==
    (Answered /\ InSuccessRange(ret.resps[1].StatusCode) /\ Undecodable)
    => /\ ret.err # Nil
       /\ ret.err[1].kind = "AvalaraError"
       /\ ret.err[1].Code = S("FormatException")
       /\ ret.err[1].Details = Unmarshal(ret.resps[1].Body, ResultType(ret.op)).err
       /\ ret.err[1].Details # Empty
       /\ ret.err # ErrorString(S("unexpected status code: ")
                                \o Itoa(ret.resps[1].StatusCode))
       /\ ret.result = Nil

\* GetUserRoles received 299 and a list of strings where roles were due.
C6_Witness ==
    /\ ret.op = "GetUserRoles" /\ Answered
    /\ ret.resps[1].StatusCode = 299
    /\ ret.resps[1].Body = BodyPermissions
    /\ ret.err # Nil
    /\ ret.err[1].Details = <<"json: cannot unmarshal ", "string",
                              " into Go value of type ", "SecurityRoleModel">>

\* The body of the response is no structured error with a code.
NoStructuredError ==
    \/ Unmarshal(ret.resps[1].Body, AvalaraErrorResponse).err # Empty
    \/ Unmarshal(ret.resps[1].Body, AvalaraErrorResponse).v.Error.Code = Empty

\* C7: a response counts as a success exactly when 200 <= status < 300:
\* inside the range the call succeeds or fails on decoding alone, outside
\* it always fails without a result; and outside the range a body that is
\* no parseable structured error, or whose code is empty, gives the error
\* "unexpected status code: N" for that status, not an AvalaraError.
C7_StatusRange ==
    Answered =>
        /\ InSuccessRange(ret.resps[1].StatusCode)
              => IF Undecodable
                 THEN ret.err # Nil /\ ret.err[1].Code = S("FormatException")
                 ELSE ret.err = Nil /\ ret.result # Nil
        /\ ~InSuccessRange(ret.resps[1].StatusCode)
              => ret.err # Nil /\ ret.result = Nil
        /\ (~InSuccessRange(ret.resps[1].StatusCode) /\ NoStructuredError)
              => /\ ret.err = ErrorString(S("unexpected status code: ")
                                          \o Itoa(ret.resps[1].StatusCode))
                 /\ AsAvalaraError(ret.err) = Nil

\* Ping received 300 with an error body whose code is empty.
C7_Witness ==
    /\ ret.op = "Ping" /\ Answered
    /\ ret.resps[1].StatusCode = 300
    /\ ret.resps[1].Body = BodyErrorEmptyCode
    /\ ErrorText(ret.err) = <<"unexpected status code: ", "3", "0", "0">>

\* The credentials as base64.StdEncoding renders user ":" pass, said by its
\* inverse: the text decodes to exactly those bytes and is padded to quads.
IsBase64Of(text, user, pass) ==
    /\ DecodeString(text).ok
    /\ DecodeString(text).bytes = Bytes(user \o S(":") \o pass)
    /\ Len(text) = 4 * ((Len(user) + 1 + Len(pass) + 2) \div 3)

\* C9: after AddCredentials(user, pass), every request of every accessor,
\* fresh or continued, carries Authorization "Basic " followed by the
\* base64 of user ":" pass of the most recent AddCredentials call,
\* X-Avalara-Client "baton-avalara; 1.0.0; Go SDK; API_VERSION", and
\* Content-Type and Accept "application/json".
C9_RequestHeaders ==
    (ret.op \in Accessors /\ lastCreds # Nil) =>
        \A i \in 1..Len(ret.reqs) :
            /\ SubSeq(ret.reqs[i].Header["Authorization"], 1, 2) = <<"Basic", " ">>
            /\ IsBase64Of(SubSeq(ret.reqs[i].Header["Authorization"], 3,
                                 Len(ret.reqs[i].Header["Authorization"])),
                          lastCreds[1].username, lastCreds[1].password)
            /\ ret.reqs[i].Header["X-Avalara-Client"]
                   = <<"baton-avalara", "; ", "1.0.0", "; Go SDK; API_VERSION">>
            /\ ret.reqs[i].Header["Content-Type"] = <<"application/json">>
            /\ ret.reqs[i].Header["Accept"] = <<"application/json">>

\* A continuation request went out as testuser:testpass.
C9_Witness ==
    /\ Continues /\ Len(ret.reqs) = 1
    /\ lastCreds = <<[username |-> TestUser, password |-> TestPass]>>
    /\ ret.reqs[1].Header["Authorization"]
           = <<"Basic", " ", "d", "G", "V", "z", "d", "H", "V", "z", "Z", "X", "I", "6",
               "d", "G", "V", "z", "d", "H", "B", "h", "c", "3", "M", "=">>

\* The query parameters a fresh request is to carry for the given options.
ExpectedQuery(opts) ==
    IF opts = Nil THEN NoValues
    ELSE LET value == (<<"$", "top">> :> <<Itoa(opts[1].Top)>>)
                      @@ (<<"$", "skip">> :> <<Itoa(opts[1].Skip)>>)
                      @@ (<<"$", "orderby">> :> <<opts[1].OrderBy>>)
                      @@ (<<"$", "filter">> :> <<opts[1].Filter>>)
             sent(k) == CASE k = <<"$", "top">> -> opts[1].Top > 0
                          [] k = <<"$", "skip">> -> opts[1].Skip > 0
                          [] k = <<"$", "orderby">> -> opts[1].OrderBy # Empty
                          [] k = <<"$", "filter">> -> opts[1].Filter # Empty
         IN  [k \in {x \in DOMAIN value : sent(x)} |-> value[k]]

\* C10: with an empty NextLink the request goes to the base URL followed by
\* the endpoint path, and its query parameters are exactly $top iff Top > 0,
\* $skip iff Skip > 0, $orderby iff OrderBy is non-empty and $filter iff
\* Filter is non-empty, each with the option's value.
C10_FreshQuery ==
    (ret.op \in PaginatedOps /\ ~Continues) =>
        /\ Len(ret.reqs) = 1
        /\ ret.reqs[1].URL.Scheme \o S("://") \o ret.reqs[1].URL.Host
               \o ret.reqs[1].URL.Path = client.baseURL \o EndpointOf(ret.op)
        /\ UrlQuery(ret.reqs[1].URL) = ExpectedQuery(ret.args)

\* GetPermissions with Top 10, Skip 5 and a filter asked for exactly
\* $top=10, $skip=5 and $filter=id eq 1.
C10_Witness ==
    /\ ret.op = "GetPermissions"
    /\ ret.args = <<PaginationOptions(10, 5, Empty, FilterID, Empty)>>
    /\ Len(ret.reqs) = 1
    /\ DOMAIN UrlQuery(ret.reqs[1].URL) = {<<"$", "top">>, <<"$", "skip">>, <<"$", "filter">>}
    /\ ValuesGet(UrlQuery(ret.reqs[1].URL), <<"$", "top">>) = <<"1", "0">>
    /\ ValuesGet(UrlQuery(ret.reqs[1].URL), <<"$", "skip">>) = <<"5">>
    /\ ValuesGet(UrlQuery(ret.reqs[1].URL), <<"$", "filter">>) = FilterID

\* The base URL the three-URL reading of NewAvalaraClient gives a selector.
FixedBaseURL(environment) ==
    CASE environment = S("sandbox") -> SandboxBaseURL
      [] environment = S("test") -> TestBaseURL
      [] OTHER -> ProductionBaseURL

\* C11: the client's base URL is always one of the three fixed URLs:
\* "sandbox" selects the sandbox URL, "test" the local test URL and every
\* other selector, the empty and the unrecognized ones included, production.
C11_ThreeFixedURLs ==
    /\ client.baseURL \in {ProductionBaseURL, SandboxBaseURL, TestBaseURL}
    /\ \A e \in Environments :
           NewAvalaraClient(e).baseURL = client.baseURL => FixedBaseURL(e) = client.baseURL

\* The text the call r on client c parses as its target: the continuation
\* link it was given or, without one, the base URL before the endpoint.
CallTarget(c, r) ==
    IF r.op \in PaginatedOps /\ r.args # Nil /\ r.args[1].NextLink # Empty
    THEN r.args[1].NextLink
    ELSE c.baseURL

\* C15: each accessor call issues at most one HTTP request, and exactly one
\* when its target URL parses; a failed request is not retried, and a call
\* repeating the preceding one sends a request of its own instead of
\* answering from the earlier result.
C15_OneRequestPerCall ==
    [][tally'.calls = tally.calls + 1 =>
          /\ ret'.op \in Accessors
          /\ Len(ret'.reqs) = IF UrlParse(CallTarget(client, ret')).ok THEN 1 ELSE 0
          /\ Len(ret'.resps) = Len(ret'.reqs)
          /\ tally'.sent = tally.sent + Len(ret'.reqs)
          /\ (ret'.op = ret.op /\ ret'.args = ret.args /\ Len(ret.reqs) = 1) =>
                 (Len(ret'.reqs) = 1 /\ tally'.sent = tally.sent + 1)]_vars

\* Two calls were made, the second one failed in the transport, and two
\* requests went out in all.
C15_Witness ==
    /\ tally = [calls |-> 2, sent |-> 2]
    /\ ret.op = "Ping"
    /\ Len(ret.reqs) = 1
    /\ ret.resps[1].fail = "send"

(***************************************************************************)
(* pkg/connector: the user and role builders                               *)
(***************************************************************************)
RoleMemberEntitlement == "member"
roleResourceType == "role"
userResourceType == "user"

\* Top of the options the builders send.
pageSize == 100

\* rs.NewResourceID
NewResourceID(resourceType, objectID) ==
    [ResourceType |-> resourceType, Resource |-> objectID]

\* rs.NewRoleResource(name, roleResourceType, objectID, WithRoleProfile(profile),
\* WithParentResourceID(parent))
NewRoleResource(name, objectID, profile, parent) ==
    [Id |-> NewResourceID(roleResourceType, objectID), DisplayName |-> name,
     ParentResourceId |-> parent, Profile |-> profile]

\* The role resource roleBuilder.List makes of one role of the page.
roleResource(role, parent) ==
    NewRoleResource(role.Description, Itoa(role.ID),
                    [id |-> Itoa(role.ID), description |-> role.Description],
                    parent)

\* A variant that also disables the users marked deleted.
userResourceDeletedDisabled(user, parent) ==
    [Id |-> NewResourceID(userResourceType, Itoa(user.ID)), DisplayName |-> user.UserName,
     ParentResourceId |-> parent,
     Profile |-> [id |-> user.ID, firstName |-> user.FirstName,
                  lastName |-> user.LastName, email |-> user.Email,
                  userName |-> user.UserName, accountId |-> user.AccountID,
                  companyId |-> user.CompanyID, isActive |-> user.IsActive,
                  suppressNewUserEmail |-> user.SuppressNewUserEmail,
                  isDeleted |-> user.IsDeleted],
     Status |-> IF ~user.IsActive \/ user.IsDeleted
                THEN "STATUS_DISABLED" ELSE "STATUS_ENABLED",
     Login |-> user.UserName, Email |-> user.Email]

\* func userResource(ctx, user, parent): profile, status, login and email
\* of the user trait, display name and id.
userResource(user, parent) ==
    [Id |-> NewResourceID(userResourceType, Itoa(user.ID)), DisplayName |-> user.UserName,
     ParentResourceId |-> parent,
     Profile |-> [id |-> user.ID, firstName |-> user.FirstName,
                  lastName |-> user.LastName, email |-> user.Email,
                  userName |-> user.UserName, accountId |-> user.AccountID,
                  companyId |-> user.CompanyID, isActive |-> user.IsActive,
                  suppressNewUserEmail |-> user.SuppressNewUserEmail,
                  isDeleted |-> user.IsDeleted],
     Status |-> IF ~user.IsActive THEN "STATUS_DISABLED" ELSE "STATUS_ENABLED",
     Login |-> user.UserName, Email |-> user.Email]

\* grant.NewGrant(resource, entitlementName, principal)
NewGrant(resource, entitlementName, principal) ==
    [Entitlement |-> [Resource |-> resource, Slug |-> entitlementName],
     Principal |-> [Id |-> principal]]

\* rs.GetProfileStringValue(roleTrait.Profile, "description")
GetProfileStringValue(resource, key) ==
    IF key \in DOMAIN resource.Profile
    THEN [ok |-> TRUE, v |-> resource.Profile[key]]
    ELSE [ok |-> FALSE, v |-> Empty]

\* A *pagination.Token holding a token string.
Token(t) == <<[Token |-> t]>>

\* A variant that asks for the first page whatever the token.
FirstPageOptions(top, pToken) == <<PaginationOptions(top, 0, Empty, Empty, Empty)>>

\* The options a builder sends: Top, and the page token as NextLink when
\* there is one.
BuilderOptions(top, pToken) ==
    <<PaginationOptions(top, 0, Empty, Empty,
                        IF pToken # Nil /\ pToken[1].Token # Empty
                        THEN pToken[1].Token ELSE Empty)>>

\* A variant that never asks for a further page.
NoNextPageToken(nextOptions) == Empty

\* The next-page token a builder returns.
NextPageToken(nextOptions) ==
    IF nextOptions # Nil /\ nextOptions[1].NextLink # Empty
    THEN nextOptions[1].NextLink ELSE Empty

\* What a builder returns: (items, next-page token, error), with the
\* requests and responses of its accessor call.
Returns(items, next, err, out) ==
    [result |-> items, next |-> next, err |-> err, reqs |-> out.reqs, resps |-> out.resps]

\* A variant that reports the failure without wrapping its cause.
FailsUnwrapped(context, out) == Returns(Nil, Empty, ErrorString(context), out)

\* return nil, "", nil, fmt.Errorf(context + "%w", err)
Fails(context, out) == Returns(Nil, Empty, Wrap(context, out.err), out)

\* A variant that ends the listing at a page that holds the whole record set.
roleListReturnWholePage(parent, out) ==
    IF out.err # Nil
    THEN Fails(S("avalara-connector: failed to list roles: "), out)
    ELSE Returns([i \in 1..Len(out.result[1].Value) |->
                     roleResource(out.result[1].Value[i], parent)],
                 IF Len(out.result[1].Value) = out.result[1].RecordsetCount
                 THEN Empty ELSE NextPageToken(out.next),
                 Nil, out)

\* roleBuilder.List once GetUserRoles has returned out.
roleListReturn(parent, out) ==
    IF out.err # Nil
    THEN Fails(S("avalara-connector: failed to list roles: "), out)
    ELSE Returns([i \in 1..Len(out.result[1].Value) |->
                     roleResource(out.result[1].Value[i], parent)],
                 NextPageToken(out.next), Nil, out)

\* func (r *roleBuilder) List(ctx, parentResourceID, pToken)
roleBuilderList(c, parent, pToken, tr) ==
    roleListReturn(parent, GetUserRoles(c, BuilderOptions(100, pToken), tr))

\* userBuilder.List once GetUsers has returned out.
userListReturn(parent, out) ==
    IF out.err # Nil
    THEN Fails(S("failed to get users: "), out)
    ELSE Returns([i \in 1..Len(out.result[1].Value) |->
                     userResource(out.result[1].Value[i], parent)],
                 NextPageToken(out.next), Nil, out)

\* func (o *userBuilder) List(ctx, parentResourceID, pToken)
userBuilderList(c, parent, pToken, tr) ==
    userListReturn(parent, GetUsers(c, BuilderOptions(pageSize, pToken), tr))

\* A variant that compares role names without regard to letter case.
RoleMatchesFold(user, roleDescription) ==
    ToLower(user.SecurityRoleID) = ToLower(roleDescription)

\* user.SecurityRoleID == roleDescription
RoleMatches(user, roleDescription) == user.SecurityRoleID = roleDescription

\* A variant that names the principal by the user's name.
grantsReturnByName(resource, roleDescription, out) ==
    IF out.err # Nil
    THEN Fails(S("avalara-connector: failed to list users: "), out)
    ELSE Returns([i \in 1..Len(SelectSeq(out.result[1].Value,
                                        LAMBDA u : RoleMatches(u, roleDescription))) |->
                     NewGrant(resource, RoleMemberEntitlement,
                              NewResourceID(userResourceType,
                                  SelectSeq(out.result[1].Value,
                                      LAMBDA u : RoleMatches(u, roleDescription))[i].UserName))],
                 NextPageToken(out.next), Nil, out)

\* roleBuilder.Grants once GetUsers has returned out.
grantsReturn(resource, roleDescription, out) ==
    IF out.err # Nil
    THEN Fails(S("avalara-connector: failed to list users: "), out)
    ELSE Returns([i \in 1..Len(SelectSeq(out.result[1].Value,
                                        LAMBDA u : RoleMatches(u, roleDescription))) |->
                     NewGrant(resource, RoleMemberEntitlement,
                              NewResourceID(userResourceType,
                                  Itoa(SelectSeq(out.result[1].Value,
                                           LAMBDA u : RoleMatches(u, roleDescription))[i].ID)))],
                 NextPageToken(out.next), Nil, out)

\* func (r *roleBuilder) Grants(ctx, resource, pToken)
roleBuilderGrants(c, resource, pToken, tr) ==
    IF ~GetProfileStringValue(resource, "description").ok
    THEN Returns(Nil, Empty,
                 ErrorString(S("avalara-connector: failed to get role description from profile")),
                 [reqs |-> << >>, resps |-> << >>])
    ELSE grantsReturn(resource, GetProfileStringValue(resource, "description").v,
                      GetUsers(c, BuilderOptions(100, pToken), tr))

\* entitlement.NewAssignmentEntitlement(resource, name, WithGrantableTo,
\* WithDisplayName, WithDescription)
NewAssignmentEntitlement(resource, name, grantableTo, displayName, description) ==
    [Resource |-> resource, Slug |-> name, GrantableTo |-> grantableTo,
     DisplayName |-> displayName, Description |-> description]

\* A variant that offers an entitlement for administrator roles only.
roleBuilderEntitlementsAdmins(resource) ==
    Returns(IF resource.DisplayName[1] = "AccountAdmin"
            THEN <<NewAssignmentEntitlement(resource, RoleMemberEntitlement,
                                            <<userResourceType>>,
                                            resource.DisplayName \o S(" Role"),
                                            S("Avalara ") \o resource.DisplayName
                                                \o S(" role assignment"))>>
            ELSE Nil,
            Empty, Nil, [reqs |-> << >>, resps |-> << >>])

\* A variant whose entitlement is grantable to roles.
roleBuilderEntitlementsToRoles(resource) ==
    Returns(<<NewAssignmentEntitlement(resource, RoleMemberEntitlement,
                                       <<roleResourceType>>,
                                       resource.DisplayName \o S(" Role"),
                                       S("Avalara ") \o resource.DisplayName
                                           \o S(" role assignment"))>>,
            Empty, Nil, [reqs |-> << >>, resps |-> << >>])

\* func (r *roleBuilder) Entitlements(_, resource, _): the one "member"
\* entitlement of the role, without a request.
roleBuilderEntitlements(resource) ==
    Returns(<<NewAssignmentEntitlement(resource, RoleMemberEntitlement,
                                       <<userResourceType>>,
                                       resource.DisplayName \o S(" Role"),
                                       S("Avalara ") \o resource.DisplayName
                                           \o S(" role assignment"))>>,
            Empty, Nil, [reqs |-> << >>, resps |-> << >>])

\* func (o *userBuilder) Entitlements: return nil, "", nil, nil
userBuilderEntitlements(resource) ==
    Returns(Nil, Empty, Nil, [reqs |-> << >>, resps |-> << >>])

\* A variant that hands the token it was given back.
userBuilderGrantsEcho(resource, pToken) ==
    Returns(Nil, pToken[1].Token, Nil, [reqs |-> << >>, resps |-> << >>])

\* func (o *userBuilder) Grants: return nil, "", nil, nil
userBuilderGrants(resource, pToken) ==
    Returns(Nil, Empty, Nil, [reqs |-> << >>, resps |-> << >>])

(***************************************************************************)
(* A sync: the host drives a builder page by page, handing back each       *)
(* returned token, until the token is empty or a call fails.  The upstream *)
(* serves its roles and users in pages; any exchange may go wrong instead. *)
(***************************************************************************)
\* Most roles and users the upstream holds, its largest page size, and the
\* most calls of one listing.
MaxRoles == 4
MaxUsers == 2
MaxServerPage == 2
MaxCalls == 6

\* The first security roles of the test server.
RolePool ==
    <<[ID |-> 1, Description |-> S("AccountAdmin")],
      [ID |-> 2, Description |-> S("AccountUser")],
      [ID |-> 3, Description |-> S("BatchServiceAdmin")],
      [ID |-> 4, Description |-> S("CompanyAdmin")],
      [ID |-> 5, Description |-> S("CompanyUser")],
      [ID |-> 6, Description |-> S("Compliance Root User")]>>

\* The security roles of the test server.
allRoles ==
    RolePool \o
    <<[ID |-> 7, Description |-> S("ComplianceAdmin")],
      [ID |-> 8, Description |-> S("ComplianceUser")],
      [ID |-> 9, Description |-> S("CSPAdmin")],
      [ID |-> 10, Description |-> S("CSPTester")],
      [ID |-> 11, Description |-> S("ECMAccountUser")],
      [ID |-> 12, Description |-> S("ECMCompanyUser")],
      [ID |-> 13, Description |-> S("FirmAdmin")],
      [ID |-> 14, Description |-> S("FirmUser")],
      [ID |-> 15, Description |-> S("Registrar")],
      [ID |-> 16, Description |-> S("SiteAdmin")],
      [ID |-> 17, Description |-> S("SSTAdmin")],
      [ID |-> 18, Description |-> S("SystemAdmin")],
      [ID |-> 19, Description |-> S("TechnicalSupportAdmin")],
      [ID |-> 20, Description |-> S("TechnicalSupportUser")],
      [ID |-> 21, Description |-> S("TreasuryAdmin")],
      [ID |-> 22, Description |-> S("TreasuryUser")]>>

\* The users of the test server, by id, name and role; all are active.
allUsers ==
    <<[ID |-> 12345, UserName |-> S("bobExample"), SecurityRoleID |-> S("AccountUser"), IsActive |-> TRUE],
      [ID |-> 67890, UserName |-> S("aliceExample"), SecurityRoleID |-> S("AccountAdmin"), IsActive |-> TRUE],
      [ID |-> 13579, UserName |-> S("charlieExample"), SecurityRoleID |-> S("CompanyUser"), IsActive |-> TRUE],
      [ID |-> 24680, UserName |-> S("danaExample"), SecurityRoleID |-> S("CompanyAdmin"), IsActive |-> TRUE],
      [ID |-> 35791, UserName |-> S("eveExample"), SecurityRoleID |-> S("SystemAdmin"), IsActive |-> TRUE],
      [ID |-> 46802, UserName |-> S("frankExample"), SecurityRoleID |-> S("TechnicalSupportAdmin"), IsActive |-> TRUE],
      [ID |-> 57913, UserName |-> S("graceExample"), SecurityRoleID |-> S("ComplianceUser"), IsActive |-> TRUE],
      [ID |-> 68024, UserName |-> S("henryExample"), SecurityRoleID |-> S("ComplianceAdmin"), IsActive |-> TRUE],
      [ID |-> 79135, UserName |-> S("isabelExample"), SecurityRoleID |-> S("FirmUser"), IsActive |-> TRUE],
      [ID |-> 80246, UserName |-> S("jackExample"), SecurityRoleID |-> S("FirmAdmin"), IsActive |-> TRUE]>>

\* The role names users carry upstream; the last differs from the second
\* in letter case alone.
UserRoles == {S("AccountAdmin"), S("AccountUser"), S("accountuser")}

\* Upstream user number i with the given role: the odd ones are active, the
\* first is marked deleted.
User(i, role) ==
    [ID |-> i, UserName |-> <<"user", Digits[i + 1]>>, SecurityRoleID |-> role,
     IsActive |-> (i % 2 = 1), IsDeleted |-> (i = 1)]

RECURSIVE UserLists(_)
\* The user lists of at most n users.
UserLists(n) ==
    IF n = 0 THEN {<< >>}
    ELSE UserLists(n - 1)
         \cup {Append(us, User(n, role)) : us \in {l \in UserLists(n - 1) : Len(l) = n - 1},
                                          role \in UserRoles}

\* Users {1: AccountUser, 2: AccountAdmin}.
TwoUsers == <<User(1, S("AccountUser")), User(2, S("AccountAdmin"))>>

Upstreams ==
    {ApiTransport(SubSeq(RolePool, 1, n), TwoUsers, p, t) :
        n \in 0..MaxRoles, p \in 1..MaxServerPage, t \in BOOLEAN}
    \cup {ApiTransport(SubSeq(RolePool, 1, 2), us, p, t) :
        us \in UserLists(MaxUsers), p \in 1..MaxServerPage, t \in BOOLEAN}
    \cup {TestServer(allRoles, allUsers)}

\* Exchanges that go wrong: the connection breaks, the server refuses the
\* credentials, the server fails with an HTML page, or answers 200 with a
\* body that is not the envelope.
Faults ==
    {Response("send", 0, BodyNone), Response("none", 401, BodyErrorBrief),
     Response("none", 500, BodyNotJSON), Response("none", 200, BodyNotJSON),
     Response("none", 200, BodyWrongType)}

\* The transports one call may meet.
Transports == {rt} \cup {MockTransport(r) : r \in Faults}

SyncInit ==
    /\ client = AddCredentials(NewAvalaraClient(S("test")), TestUser, TestPass)
    /\ options = Nil
    /\ rt \in Upstreams
    /\ ret = NoCall
    /\ lastCreds = <<[username |-> TestUser, password |-> TestPass]>>
    /\ drv = Idle
    /\ run = NotRun
    /\ conc = NoProcs
    /\ tally = NoTraffic

Running(kind) == drv.phase = "run" /\ drv.kind = kind /\ drv.calls < MaxCalls

\* The host starts listing the roles or the users.
DriveList ==
    /\ drv.phase = "idle"
    /\ \E kind \in {"roles", "users"} :
           drv' = [Idle EXCEPT !.phase = "run", !.kind = kind]
    /\ UNCHANGED <<client, options, rt, ret, lastCreds, run, conc, tally>>

\* The host starts listing the grants of a role resource.
DriveGrants ==
    /\ drv.phase = "idle"
    /\ \E i \in 1..2 :
           drv' = [Idle EXCEPT !.phase = "run", !.kind = "grants",
                               !.resource = <<roleResource(RolePool[i], Nil)>>]
    /\ UNCHANGED <<client, options, rt, ret, lastCreds, run, conc, tally>>

\* The URLs requested so far in the listing under way; a call without a
\* token starts a listing.
Requested ==
    (IF drv.token = Empty THEN << >> ELSE drv.seen)
    \o [i \in 1..Len(ret'.reqs) |-> UrlString(ret'.reqs[i].URL)]

\* The host takes what the builder returned: a failure ends the listing,
\* an empty token completes it, any other token is handed back.
Taken ==
    [drv EXCEPT !.phase = IF ret'.err # Nil THEN "failed"
                          ELSE IF ret'.next = Empty THEN "done" ELSE "run",
                !.token = ret'.next,
                !.acc = IF ret'.err # Nil THEN @ ELSE @ \o ret'.result,
                !.calls = @ + 1,
                !.seen = Requested]

StepRoles ==
    /\ Running("roles")
    /\ \E tr \in Transports :
           ret' = Returned("roleBuilder.List", Token(drv.token),
                           roleBuilderList(client, Nil, Token(drv.token), tr))
    /\ drv' = Taken
    /\ tally' = Tallied
    /\ UNCHANGED <<client, options, rt, lastCreds, run, conc>>

StepUsers ==
    /\ Running("users")
    /\ \E tr \in Transports :
           ret' = Returned("userBuilder.List", Token(drv.token),
                           userBuilderList(client, Nil, Token(drv.token), tr))
    /\ drv' = Taken
    /\ tally' = Tallied
    /\ UNCHANGED <<client, options, rt, lastCreds, run, conc>>

StepGrants ==
    /\ Running("grants")
    /\ \E tr \in Transports :
           ret' = Returned("roleBuilder.Grants", Token(drv.token),
                           roleBuilderGrants(client, drv.resource[1], Token(drv.token), tr))
    /\ drv' = Taken
    /\ tally' = Tallied
    /\ UNCHANGED <<client, options, rt, lastCreds, run, conc>>

\* The host starts a full sync: the resources of each syncer, users before
\* roles, then the entitlements of each resource, then its grants.
DriveSync ==
    /\ drv.phase = "idle"
    /\ run.phase \in {"none", "valid"}
    /\ drv' = [Idle EXCEPT !.phase = "run", !.kind = "sync", !.stage = "users"]
    /\ UNCHANGED <<client, options, rt, ret, lastCreds, run, conc, tally>>

Syncing(stage) == drv.phase = "run" /\ drv.kind = "sync" /\ drv.stage = stage

\* The sync after a page of resources: a failure ends it, a token asks for
\* the next page, and the empty token moves it to the following stage.
Listed(following) ==
    IF ret'.err # Nil
    THEN [drv EXCEPT !.phase = "failed", !.calls = @ + 1, !.seen = Requested]
    ELSE IF ret'.next # Empty
    THEN [drv EXCEPT !.token = ret'.next, !.acc = @ \o ret'.result,
                     !.calls = @ + 1, !.seen = Requested]
    ELSE [drv EXCEPT !.token = Empty, !.acc = @ \o ret'.result,
                     !.calls = @ + 1, !.seen = Requested,
                     !.stage = following,
                     !.idx = IF following = "entitlements" THEN 1 ELSE @,
                     !.phase = IF following = "entitlements"
                                  /\ Len(drv.acc) + Len(ret'.result) = 0
                               THEN "done" ELSE @]

SyncListUsers ==
    /\ Syncing("users")
    /\ ret' = Returned("userBuilder.List", Token(drv.token),
                       userBuilderList(client, Nil, Token(drv.token), rt))
    /\ tally' = Tallied
    /\ drv' = Listed("roles")
    /\ UNCHANGED <<client, options, rt, lastCreds, run, conc>>

SyncListRoles ==
    /\ Syncing("roles")
    /\ ret' = Returned("roleBuilder.List", Token(drv.token),
                       roleBuilderList(client, Nil, Token(drv.token), rt))
    /\ tally' = Tallied
    /\ drv' = Listed("entitlements")
    /\ UNCHANGED <<client, options, rt, lastCreds, run, conc>>

\* The resource the sync is at.
Current == drv.acc[drv.idx]

\* The sync after the entitlements of the current resource.
Entitled ==
    [drv EXCEPT !.entitlements = @ \o ret'.result,
                !.calls = @ + 1,
                !.idx = IF drv.idx = Len(drv.acc) THEN 1 ELSE @ + 1,
                !.stage = IF drv.idx = Len(drv.acc) THEN "grants" ELSE @]

SyncRoleEntitlements ==
    /\ Syncing("entitlements")
    /\ Current.Id.ResourceType = roleResourceType
    /\ ret' = Returned("roleBuilder.Entitlements", Token(Empty),
                       roleBuilderEntitlements(Current))
    /\ drv' = Entitled
    /\ UNCHANGED <<client, options, rt, lastCreds, run, conc, tally>>

SyncUserEntitlements ==
    /\ Syncing("entitlements")
    /\ Current.Id.ResourceType = userResourceType
    /\ ret' = Returned("userBuilder.Entitlements", Token(Empty),
                       userBuilderEntitlements(Current))
    /\ drv' = Entitled
    /\ UNCHANGED <<client, options, rt, lastCreds, run, conc, tally>>

\* The sync after a page of the grants of the current resource.
Granted ==
    IF ret'.err # Nil
    THEN [drv EXCEPT !.phase = "failed", !.calls = @ + 1, !.seen = Requested]
    ELSE IF ret'.next # Empty
    THEN [drv EXCEPT !.token = ret'.next, !.grants = @ \o ret'.result,
                     !.calls = @ + 1, !.seen = Requested]
    ELSE [drv EXCEPT !.token = Empty, !.grants = @ \o ret'.result,
                     !.calls = @ + 1, !.seen = Requested,
                     !.idx = @ + 1,
                     !.phase = IF drv.idx = Len(drv.acc) THEN "done" ELSE @]

SyncRoleGrants ==
    /\ Syncing("grants")
    /\ Current.Id.ResourceType = roleResourceType
    /\ ret' = Returned("roleBuilder.Grants", Token(drv.token),
                       roleBuilderGrants(client, Current, Token(drv.token), rt))
    /\ tally' = Tallied
    /\ drv' = Granted
    /\ UNCHANGED <<client, options, rt, lastCreds, run, conc>>

SyncUserGrants ==
    /\ Syncing("grants")
    /\ Current.Id.ResourceType = userResourceType
    /\ ret' = Returned("userBuilder.Grants", Token(drv.token),
                       userBuilderGrants(Current, Token(drv.token)))
    /\ drv' = Granted
    /\ UNCHANGED <<client, options, rt, lastCreds, run, conc, tally>>

\* The tokens the host may pass to a call that does no paging.
HostTokens == {Empty, LinkUsers}

\* A listing is over and the host asks about its resources.
Listing == drv.phase \in {"done", "asked"} /\ drv.kind \in {"roles", "users"}

Asked == [drv EXCEPT !.phase = "asked"]

\* The host asks the role syncer for the entitlements of a listed role,
\* with some token.
HostRoleEntitlements ==
    /\ Listing /\ drv.kind = "roles"
    /\ \E i \in 1..Len(drv.acc), tok \in HostTokens :
           ret' = Returned("roleBuilder.Entitlements", Token(tok) \o <<drv.acc[i]>>,
                           roleBuilderEntitlements(drv.acc[i]))
    /\ drv' = Asked
    /\ UNCHANGED <<client, options, rt, lastCreds, run, conc, tally>>

\* The host asks the user syncer for the entitlements of a listed
\* resource, with some token.
HostUserEntitlements ==
    /\ Listing
    /\ \E i \in 1..Len(drv.acc), tok \in HostTokens :
           ret' = Returned("userBuilder.Entitlements", Token(tok) \o <<drv.acc[i]>>,
                           userBuilderEntitlements(drv.acc[i]))
    /\ drv' = Asked
    /\ UNCHANGED <<client, options, rt, lastCreds, run, conc, tally>>

\* The host asks the user syncer for the grants of a listed resource, with
\* some token.
HostUserGrants ==
    /\ Listing
    /\ \E i \in 1..Len(drv.acc), tok \in HostTokens :
           ret' = Returned("userBuilder.Grants", Token(tok) \o <<drv.acc[i]>>,
                           userBuilderGrants(drv.acc[i], Token(tok)))
    /\ drv' = Asked
    /\ UNCHANGED <<client, options, rt, lastCreds, run, conc, tally>>

FullSync ==
    \/ DriveSync
    \/ SyncListUsers
    \/ SyncListRoles
    \/ SyncRoleEntitlements
    \/ SyncUserEntitlements
    \/ SyncRoleGrants
    \/ SyncUserGrants

SyncNext ==
    \/ DriveList
    \/ DriveGrants
    \/ StepRoles
    \/ StepUsers
    \/ StepGrants
    \/ HostRoleEntitlements
    \/ HostUserEntitlements
    \/ HostUserGrants
    \/ FullSync

SyncSpec == SyncInit /\ [][SyncNext]_vars

(***************************************************************************)
(* Properties of the builders                                              *)
(***************************************************************************)
BuilderOps == {"roleBuilder.List", "userBuilder.List", "roleBuilder.Grants"}

\* The type the accessor behind a builder decodes into, and the context
\* the builder puts before the accessor's error.
AccessorType(op) ==
    IF op = "roleBuilder.List" THEN SecurityRoleResponse ELSE UserResponse

FailureContext(op) ==
    CASE op = "roleBuilder.List" -> S("avalara-connector: failed to list roles: ")
      [] op = "userBuilder.List" -> S("failed to get users: ")
      [] op = "roleBuilder.Grants" -> S("avalara-connector: failed to list users: ")

\* The error the accessor of the last builder call came back with.
AccessorError == getResponse(AccessorType(ret.op), ret.reqs[1], ret.resps[1]).err

\* C2: a successful call of userBuilder.List, roleBuilder.List or
\* roleBuilder.Grants returns the @nextLink string of the response envelope
\* as its token, and the empty token exactly when the envelope has no
\* @nextLink, however many items the call returns.
C2_TokenIsNextLink ==
    (ret.op \in BuilderOps /\ ret.err = Nil) =>
        /\ ret.next = JText(JField(ret.resps[1].Body, "@nextLink"))
        /\ ret.next = Empty <=> "@nextLink" \notin DOMAIN ret.resps[1].Body.o

\* roleBuilder.Grants returned no grant, yet a token: the link of a page
\* whose users hold other roles.
C2_Witness ==
    /\ ret.op = "roleBuilder.Grants" /\ ret.err = Nil
    /\ Len(ret.result) = 0
    /\ Len(ret.resps[1].Body.o["value"].a) = 1
    /\ ret.next # Empty
    /\ ret.next = ret.resps[1].Body.o["@nextLink"].s

\* The grants a role resource is due: one for each upstream user, in
\* upstream order, whose securityRoleId is the description of the role.
GrantsDue(resource, users) ==
    [i \in 1..Len(SelectSeq(users, LAMBDA u : u.SecurityRoleID = resource.Profile.description)) |->
        [Entitlement |-> [Resource |-> resource, Slug |-> "member"],
         Principal |-> [Id |-> [ResourceType |-> "user",
                                Resource |-> Itoa(SelectSeq(users,
                                    LAMBDA u : u.SecurityRoleID = resource.Profile.description)[i].ID)]]]]

\* C3: roleBuilder.Grants driven from the empty token until the token is
\* empty yields exactly one "member" grant for each upstream user whose
\* securityRoleId equals the role's description, letter case included, and
\* none for any other user.
C3_GrantsByRole ==
    (drv.phase = "done" /\ drv.kind = "grants") =>
        drv.acc = GrantsDue(drv.resource[1], rt.users)

\* With users {1: AccountUser, 2: AccountAdmin} and the role AccountUser,
\* the grants are the single grant to user 1.
C3_Witness ==
    /\ drv.phase = "done" /\ drv.kind = "grants"
    /\ rt.users = TwoUsers
    /\ drv.resource[1].Profile.description = S("AccountUser")
    /\ Len(drv.acc) = 1
    /\ drv.acc[1].Principal.Id = [ResourceType |-> "user", Resource |-> <<"1">>]
    /\ drv.acc[1].Entitlement.Slug = "member"
    /\ drv.acc[1].Entitlement.Resource.Id = [ResourceType |-> "role", Resource |-> <<"2">>]

\* C4: roleBuilder.List driven from the empty token through its pages
\* yields one role resource for each upstream role, in upstream order,
\* whose id is the decimal role id; distinct role ids give distinct
\* resources.
C4_RolesInOrder ==
    (drv.phase = "done" /\ drv.kind = "roles") =>
        /\ Len(drv.acc) = Len(rt.roles)
        /\ \A i \in 1..Len(drv.acc) :
              /\ drv.acc[i].Id.ResourceType = "role"
              /\ Atoi(drv.acc[i].Id.Resource) = [ok |-> TRUE, n |-> rt.roles[i].ID]
              /\ drv.acc[i].DisplayName = rt.roles[i].Description
        /\ \A i, j \in 1..Len(drv.acc) : i # j => drv.acc[i] # drv.acc[j]

\* Two pages of two roles each gave four role resources, ids 1 to 4.
C4_Witness ==
    /\ drv.phase = "done" /\ drv.kind = "roles" /\ drv.calls = 2
    /\ rt.mode = "api" /\ rt.pageSize = 2 /\ Len(rt.roles) = 4
    /\ [i \in 1..Len(drv.acc) |-> drv.acc[i].Id.Resource]
           = << <<"1">>, <<"2">>, <<"3">>, <<"4">> >>

\* C8: when the accessor call of userBuilder.List, roleBuilder.List or
\* roleBuilder.Grants fails, on the transport, the status or the decoding,
\* the builder returns no items, the empty token and an error that wraps
\* the accessor's error behind a context naming the resource kind; the
\* listing ends with nothing of the failed page.
C8_FailedPage ==
    (ret.op \in BuilderOps /\ AccessorError # Nil) =>
        /\ ret.result = Nil
        /\ ret.next = Empty
        /\ ret.err # Nil
        /\ Tail(ret.err) = AccessorError
        /\ ErrorText(ret.err) = FailureContext(ret.op) \o ErrorText(AccessorError)
        /\ drv.phase = "failed"

\* The second page of a user listing came back 200 with a body that is no
\* JSON: the listing failed and kept the users of the first page only.
C8_Witness ==
    /\ ret.op = "userBuilder.List" /\ drv.phase = "failed" /\ drv.calls = 2
    /\ Len(drv.acc) = 1
    /\ ret.resps[1] = Response("none", 200, BodyNotJSON)
    /\ ret.result = Nil /\ ret.next = Empty
    /\ Len(ret.err) = 2
    /\ ret.err[2].Code = S("FormatException")
    /\ ErrorText(ret.err)[1] = "failed to get users: "


\* No URL occurs twice among the requests of the listing.
NoPageTwice(urls) == \A i, j \in 1..Len(urls) : urls[i] = urls[j] => i = j

\* C16: pagination is forward-only. In a listing driven by the returned
\* tokens each call is passed the token the preceding call returned and
\* requests exactly that link, and no URL is requested twice before the
\* empty token ends the listing.
C16_ForwardOnly ==
    /\ [](drv.phase # "idle" => NoPageTwice(drv.seen))
    /\ [][(drv.phase = "run" /\ drv'.calls = drv.calls + 1) =>
             /\ ret'.args = Token(drv.token)
             /\ drv.token = Empty <=> (drv.calls = 0 \/ ret.next = Empty)
             /\ drv.token # Empty =>
                    /\ drv.token = ret.next
                    /\ \A i \in 1..Len(ret'.reqs) :
                           UrlString(ret'.reqs[i].URL) = ret.next]_vars

\* A listing of the users ended after three pages.
C16_Witness ==
    /\ drv.phase = "done" /\ drv.kind = "users"
    /\ drv.calls = 3
    /\ Len(drv.seen) = 3
    /\ drv.seen[2] # drv.seen[3]

\* The roles of the upstream have all been served: the response of the
\* last call ends the record set it counts.
WholeSetServed ==
    /\ ret.resps # << >>
    /\ ret.resps[1].Body.t = "object"
    /\ "value" \in DOMAIN ret.resps[1].Body.o
    /\ Len(drv.acc) = JField(ret.resps[1].Body, "@recordsetCount").n

\* C17: a role listing does not stop at a page that holds the whole result
\* set but carries an @nextLink: it follows the link, and ends at the page
\* without one. Against the test server, whose first page holds every role
\* and a link and whose second page is empty, the listing takes exactly two
\* requests and yields each role once.
C17_FollowsTrailingLink ==
    /\ (/\ drv.kind = "roles" /\ ret.op = "roleBuilder.List" /\ ret.err = Nil
        /\ WholeSetServed
        /\ "@nextLink" \in DOMAIN ret.resps[1].Body.o) => drv.phase = "run"
    /\ (rt.mode = "testserver" /\ drv.kind = "roles" /\ drv.phase = "done") =>
           /\ drv.calls = 2
           /\ Len(drv.seen) = 2
           /\ ret.resps[1].Body.o["value"] = JArr(<< >>)
           /\ "@nextLink" \notin DOMAIN ret.resps[1].Body.o
           /\ drv.acc = [i \in 1..Len(allRoles) |-> roleResource(allRoles[i], Nil)]

\* The listing against the test server ended: 22 roles, two requests, the
\* second for the link of the first page.
C17_Witness ==
    /\ rt.mode = "testserver" /\ drv.kind = "roles" /\ drv.phase = "done"
    /\ Len(drv.acc) = 22
    /\ drv.seen[2] = getBaseURL \o RolesEndpoint
                      \o <<"?", "$", "skip", "=", "2", "2", "&", "$", "top", "=", "2", "2",
                           "&", "$", "filter", "=">>

(***************************************************************************)
(* cmd/baton-avalara: the configuration and the connector's Validate       *)
(***************************************************************************)
\* A variant that asks for one of the two only.
MissingBothCredentials(username, password) == username = Empty /\ password = Empty

\* username == "" || password == ""
MissingCredentials(username, password) == username = Empty \/ password = Empty

\* A variant that compares the environment as it was typed.
InvalidEnvironmentExact(environment) ==
    environment # S("production") /\ environment # S("sandbox")

\* environment = strings.ToLower(environment)
\* environment != "production" && environment != "sandbox"
InvalidEnvironment(environment) ==
    ToLower(environment) # S("production") /\ ToLower(environment) # S("sandbox")

ValidateConfig(username, password, environment) ==
    IF MissingCredentials(username, password)
    THEN ErrorString(S("both username and password are required"))
    ELSE IF InvalidEnvironment(environment)
    THEN ErrorString(S("invalid environment: must be either 'production' or 'sandbox'"))
    ELSE Nil

\* GetAvalaraClient: a client for the environment, with the credentials.
GetAvalaraClient(environment, username, password) ==
    AddCredentials(NewAvalaraClient(environment), username, password)

\* connector.New: the connector around a new client.
New(environment, username, password) ==
    [client |-> GetAvalaraClient(environment, username, password)]

\* A variant that takes any decoded ping response as a success.
ValidateReturnAnyPing(p) ==
    IF p.err # Nil
    THEN [p EXCEPT !.err = Wrap(S("failed to validate Avalara connection: "), p.err)]
    ELSE p

ValidateReturn(p) ==
    IF p.err # Nil
    THEN [p EXCEPT !.err = Wrap(S("failed to validate Avalara connection: "), p.err)]
    ELSE IF ~p.result[1].Authenticated
    THEN [p EXCEPT !.err = ErrorString(S("Avalara authentication failed"))]
    ELSE p

\* Avalara.Validate
Validate(d, tr) == ValidateReturn(Ping(d.client, tr))

(***************************************************************************)
(* A command-line run: configuration, construction, validation             *)
(***************************************************************************)
\* {"version": "24.8.2", "authenticated": false}
BodyPingDenied ==
    JObj(("version" :> JStr(S("24.8.2"))) @@ ("authenticated" :> JBool(FALSE)))

\* What the upstream may answer to the ping of a run.
PingResponses ==
    {Response("none", s, b) :
        s \in {200, 401, 500},
        b \in {BodyPing, BodyPingDenied, BodyEmptyObject, BodyNotJSON, BodyErrorNullMessage}}
    \cup {Response(f, 0, BodyNone) : f \in {"send", "read"}}

\* The upstream behind the base URL of the run: one canned answer, or a
\* server that behaves as the test server does.
RunTransports ==
    {MockTransport(r) : r \in PingResponses} \cup {TestServer(allRoles, allUsers)}

\* The configurations a run may be started with.
Configs ==
    {[username |-> u, password |-> p, environment |-> e] :
        u \in {Empty, TestUser, S("a")},
        p \in {Empty, TestPass},
        e \in Environments \cup {S("PRODUCTION")}}

Started(cfg) ==
    [phase |-> "start", username |-> cfg.username, password |-> cfg.password,
     environment |-> cfg.environment, err |-> Nil]

RunInit ==
    /\ client = Nil
    /\ options = Nil
    /\ rt \in RunTransports
    /\ ret = NoCall
    /\ lastCreds = Nil
    /\ drv = Idle
    /\ run \in {Started(cfg) : cfg \in Configs}
    /\ conc = NoProcs
    /\ tally = NoTraffic

\* What the run becomes once the configuration was checked.
Configured(err) ==
    [run EXCEPT !.phase = IF err = Nil THEN "built" ELSE "rejected", !.err = err]

\* The command validates the configuration and, when it is valid, builds
\* the connector.
RunConfigure ==
    /\ run.phase = "start"
    /\ run' = Configured(ValidateConfig(run.username, run.password, run.environment))
    /\ IF run'.err = Nil
       THEN /\ client' = New(run.environment, run.username, run.password).client
            /\ lastCreds' = <<[username |-> run.username, password |-> run.password]>>
       ELSE UNCHANGED <<client, lastCreds>>
    /\ UNCHANGED <<options, rt, ret, drv, conc, tally>>

\* The host validates the connector before it syncs.
RunValidate ==
    /\ run.phase = "built"
    /\ ret' = Returned("Validate", Nil, Validate([client |-> client], rt))
    /\ run' = [run EXCEPT !.phase = IF ret'.err = Nil THEN "valid" ELSE "invalid",
                          !.err = ret'.err]
    /\ tally' = Tallied
    /\ UNCHANGED <<client, options, rt, lastCreds, drv, conc>>

RunNext ==
    \/ RunConfigure
    \/ RunValidate
    \/ FullSync

RunSpec == RunInit /\ [][RunNext]_vars

(***************************************************************************)
(* Properties of the configuration and of Validate                         *)
(***************************************************************************)
\* The run has checked its configuration.
Checked == run.phase \notin {"none", "start"}

\* The environment names production or sandbox, in any letter case.
NamesEnvironment(environment) ==
    environment \in {S("production"), S("sandbox"), S("Sandbox"), S("SANDBOX"),
                     S("Production"), S("PRODUCTION")}

\* C13: ValidateConfig returns an error exactly when the username is empty,
\* the password is empty or the environment, compared without regard to
\* letter case, is neither production nor sandbox; otherwise it returns nil.
C13_ValidateConfig ==
    Checked =>
        ((run.phase = "rejected") <=>
            \/ run.username = Empty
            \/ run.password = Empty
            \/ ~NamesEnvironment(run.environment))

C13_Witness ==
    /\ run.phase = "built"
    /\ run.username = TestUser
    /\ run.password = TestPass
    /\ run.environment = S("Sandbox")

\* The ping was answered with a 2xx status and a JSON object.
PingSucceeded ==
    /\ Len(ret.resps) = 1
    /\ ret.resps[1].fail = "none"
    /\ InSuccessRange(ret.resps[1].StatusCode)
    /\ ret.resps[1].Body.t = "object"

\* C12: Validate issues one ping request and succeeds exactly when the
\* ping succeeds and the decoded response has authenticated = true; a
\* failed ping, an authentication failure included, and a response with
\* authenticated = false give an error.
C12_ValidateByPing ==
    ret.op = "Validate" =>
        /\ Len(ret.reqs) = 1
        /\ ret.reqs[1].Method = "GET"
        /\ ret.reqs[1].URL.Path = PingEndpoint
        /\ (ret.err = Nil) <=>
              (PingSucceeded /\ JField(ret.resps[1].Body, "authenticated") = JBool(TRUE))

\* A ping answered 200 with authenticated = false failed the validation.
C12_Witness ==
    /\ ret.op = "Validate"
    /\ PingSucceeded
    /\ ret.resps[1].Body = BodyPingDenied
    /\ ret.err # Nil
    /\ ErrorText(ret.err) = S("Avalara authentication failed")

\* The configuration lacks a credential or names no environment.
InvalidConfig ==
    \/ run.username = Empty
    \/ run.password = Empty
    \/ ~NamesEnvironment(run.environment)

C19_TestEnvironmentAccepted ==
    (/\ Checked
     /\ run.username = TestUser
     /\ run.password = TestPass
     /\ run.environment = S("test")) =>
        /\ run.phase # "rejected"
        /\ client # Nil
        /\ client.baseURL = TestBaseURL
        /\ \A i \in 1..Len(ret.reqs) : ret.reqs[i].URL.Host = S("localhost:8080")

\* The sync holds one "member" entitlement for each role the server lists,
\* in the server's order.
EntitlementPerRole ==
    /\ Len(drv.entitlements) = Len(rt.roles)
    /\ \A i \in 1..Len(drv.entitlements) :
          /\ drv.entitlements[i].Slug = "member"
          /\ drv.entitlements[i].Resource = roleResource(rt.roles[i], Nil)

\* C18: a full sync against the bundled test server with valid credentials
\* does not fail, and ends with exactly one synced entitlement for each
\* security role the server lists and with a non-empty set of grants.
C18_FullSyncCounts ==
    (rt.mode = "testserver" /\ drv.kind = "sync") =>
        /\ drv.phase # "failed"
        /\ drv.phase = "done" =>
              /\ EntitlementPerRole
              /\ drv.grants # << >>
              /\ \A i \in 1..Len(drv.grants) :
                    \E j \in 1..Len(drv.entitlements) :
                        /\ drv.grants[i].Entitlement.Resource = drv.entitlements[j].Resource
                        /\ drv.grants[i].Entitlement.Slug = drv.entitlements[j].Slug

\* The sync against the test server ended: 22 entitlements for 22 roles,
\* and the ten grants of the ten users.
C18_Witness ==
    /\ rt.mode = "testserver" /\ drv.kind = "sync" /\ drv.phase = "done"
    /\ Len(rt.roles) = 22
    /\ Len(drv.entitlements) = 22
    /\ Len(drv.grants) = 10
    /\ Len(drv.acc) = 32

(***************************************************************************)
(* Concurrent calls: the host runs builder calls side by side on the one   *)
(* client.  A call allocates its options, sends its request, and takes the *)
(* response; the steps of different calls interleave.                      *)
(***************************************************************************)
\* The calls the host runs at once.
NProcs == 2

Procs == 1..NProcs

\* A variant in which every call uses the one options object.
SharedOptions(p) == 1

\* The address of the options object call p allocates:
\* options := &avalaraclient.PaginationOptions{Top: 100}
OwnOptions(p) == p

IdleProc ==
    [pc |-> "idle", kind |-> "none", token |-> Empty, resource |-> Nil,
     overlapped |-> FALSE, reqs |-> << >>, resps |-> << >>, out |-> Nil]

\* The upstreams behind the concurrent calls: one that serves two roles and
\* two users a page of one at a time, and one that refuses the credentials.
ConcUpstreams ==
    {ApiTransport(SubSeq(RolePool, 1, 2), TwoUsers, 1, FALSE),
     MockTransport(Response("none", 401, BodyErrorBrief))}

\* The endpoint a builder call reads.
ListedEndpoint(kind) == IF kind = "roleBuilder.List" THEN RolesEndpoint ELSE UsersEndpoint

\* The tokens the host passes: none, or the link to the page after the first item.
ConcTokens(kind) ==
    {Empty,
     TestBaseURL \o ListedEndpoint(kind)
        \o <<"?", "$", "skip", "=", "1", "&", "$", "top", "=", "1", "0", "0">>}

ConcInit ==
    /\ client = AddCredentials(NewAvalaraClient(S("test")), TestUser, TestPass)
    /\ options = Nil
    /\ rt \in ConcUpstreams
    /\ ret = NoCall
    /\ lastCreds = <<[username |-> TestUser, password |-> TestPass]>>
    /\ drv = Idle
    /\ run = NotRun
    /\ conc = [procs |-> [p \in Procs |-> IdleProc], heap |-> [a \in Procs |-> Nil]]
    /\ tally = NoTraffic

\* Some other call is between its first and its last step.
OthersInFlight(p) == \E q \in Procs \ {p} : conc.procs[q].pc \in {"built", "sent"}

\* The accessor a builder calls, with the options it holds.
Accessor(kind, c, opts, tr) ==
    IF kind = "roleBuilder.List" THEN GetUserRoles(c, opts, tr) ELSE GetUsers(c, opts, tr)

\* What the builder makes of the accessor's return.
BuilderReturn(kind, resource, out) ==
    CASE kind = "roleBuilder.List" -> roleListReturn(Nil, out)
      [] kind = "userBuilder.List" -> userListReturn(Nil, out)
      [] OTHER -> grantsReturn(resource[1],
                               GetProfileStringValue(resource[1], "description").v, out)

\* A builder call starts: it allocates its options from its token.
ConcBegin(p) ==
    /\ conc.procs[p].pc = "idle"
    /\ \E kind \in {"userBuilder.List", "roleBuilder.List", "roleBuilder.Grants"} :
       \E tok \in ConcTokens(kind) :
           conc' = [conc EXCEPT
                      !.procs[p] = [IdleProc EXCEPT
                                      !.pc = "built", !.kind = kind, !.token = tok,
                                      !.overlapped = OthersInFlight(p),
                                      !.resource = IF kind = "roleBuilder.Grants"
                                                   THEN <<roleResource(RolePool[2], Nil)>>
                                                   ELSE Nil],
                      !.heap[OwnOptions(p)] = BuilderOptions(pageSize, Token(tok))]
    /\ UNCHANGED <<client, options, rt, ret, lastCreds, drv, run, tally>>

\* The call's request goes out, built from the client's fields and the
\* call's options, and the server's response to it is in flight.
Exchanged(p, out) ==
    [conc EXCEPT !.procs[p].pc = "sent", !.procs[p].reqs = out.reqs,
                 !.procs[p].resps = out.resps]

ConcSend(p) ==
    /\ conc.procs[p].pc = "built"
    /\ conc' = Exchanged(p, Accessor(conc.procs[p].kind, client,
                                     conc.heap[OwnOptions(p)], rt))
    /\ tally' = [calls |-> tally.calls + 1,
                 sent |-> tally.sent + Len(conc'.procs[p].reqs)]
    /\ UNCHANGED <<client, options, rt, ret, lastCreds, drv, run>>

\* The call takes its response: the accessor decodes it and writes the
\* link into the call's options, and the builder returns.
Received(p, out) ==
    [conc EXCEPT !.procs[p].pc = "done",
                 !.procs[p].out = <<[BuilderReturn(conc.procs[p].kind,
                                                   conc.procs[p].resource, out)
                                       EXCEPT !.reqs = conc.procs[p].reqs]>>,
                 !.heap[OwnOptions(p)] = out.next]

ConcReceive(p) ==
    /\ conc.procs[p].pc = "sent"
    /\ conc' = Received(p, Accessor(conc.procs[p].kind, client, conc.heap[OwnOptions(p)],
                                    IF conc.procs[p].resps = << >> THEN rt
                                    ELSE MockTransport(conc.procs[p].resps[1])))
    /\ UNCHANGED <<client, options, rt, ret, lastCreds, drv, run, tally>>

\* roleBuilder.Entitlements reads its resource and returns.
ConcEntitlements(p) ==
    /\ conc.procs[p].pc = "idle"
    /\ \E i \in 1..2 :
           conc' = [conc EXCEPT
                      !.procs[p] = [IdleProc EXCEPT
                                      !.pc = "done", !.kind = "roleBuilder.Entitlements",
                                      !.overlapped = OthersInFlight(p),
                                      !.resource = <<roleResource(RolePool[i], Nil)>>,
                                      !.out = <<roleBuilderEntitlements(
                                                    roleResource(RolePool[i], Nil))>>]]
    /\ UNCHANGED <<client, options, rt, ret, lastCreds, drv, run, tally>>

ConcNext ==
    \E p \in Procs :
        \/ ConcBegin(p)
        \/ ConcSend(p)
        \/ ConcReceive(p)
        \/ ConcEntitlements(p)

ConcSpec == ConcInit /\ [][ConcNext]_vars

\* What the call returns when nothing else runs.
Alone(proc) ==
    CASE proc.kind = "roleBuilder.List" ->
            roleBuilderList(client, Nil, Token(proc.token), rt)
      [] proc.kind = "userBuilder.List" ->
            userBuilderList(client, Nil, Token(proc.token), rt)
      [] proc.kind = "roleBuilder.Grants" ->
            roleBuilderGrants(client, proc.resource[1], Token(proc.token), rt)
      [] OTHER -> roleBuilderEntitlements(proc.resource[1])

\* C20: calls of List, Grants and Entitlements running concurrently on one
\* client do not affect each other. Each call has its own options object,
\* the request it sends and the items, token and error it returns are those
\* it sends and returns when it runs alone, and no step of a call changes
\* the client's base URL, credentials or client header.
C20_CallsIndependent ==
    /\ [](\A p \in Procs :
            /\ conc.procs[p].pc \in {"sent", "done"} =>
                  conc.procs[p].reqs = Alone(conc.procs[p]).reqs
            /\ conc.procs[p].pc = "done" =>
                  conc.procs[p].out = <<Alone(conc.procs[p])>>)
    /\ [](\A p, q \in Procs : p # q => OwnOptions(p) # OwnOptions(q))
    /\ [][client' = client]_vars

\* A grants call that began while a role listing was in flight has
\* returned, the listing's response still outstanding.
C20_Witness ==
    /\ conc.procs[1].pc = "sent" /\ conc.procs[1].kind = "roleBuilder.List"
    /\ conc.procs[1].token = Empty
    /\ conc.procs[2].pc = "done" /\ conc.procs[2].kind = "roleBuilder.Grants"
    /\ conc.procs[2].overlapped
    /\ conc.procs[2].token # Empty
    /\ conc.procs[2].out[1].err = Nil

(***************************************************************************)
(* The mapping of users, roles, entitlements and grants                    *)
(***************************************************************************)
\* The items of the response page the last call received, as the server
\* wrote them.
PageItems ==
    IF ret.resps # << >> /\ ret.resps[1].Body.t = "object"
       /\ "value" \in DOMAIN ret.resps[1].Body.o
       /\ ret.resps[1].Body.o["value"].t = "array"
    THEN ret.resps[1].Body.o["value"].a
    ELSE << >>

\* The flag of an item of the page, false when the item has none.
Flag(item, key) == key \in DOMAIN item.o /\ item.o[key].b

\* C21: a successful userBuilder.List returns one user resource per user
\* of the response page, in page order, with the user's decimal id, enabled
\* when isActive is true and disabled when it is false, whatever isDeleted.
C21_OneResourcePerUser ==
    (ret.op = "userBuilder.List" /\ ret.err = Nil) =>
        /\ Len(ret.result) = Len(PageItems)
        /\ \A i \in 1..Len(PageItems) :
               /\ ret.result[i].Id =
                      [ResourceType |-> "user", Resource |-> Itoa(PageItems[i].o["id"].n)]
               /\ ret.result[i].Status = IF Flag(PageItems[i], "isActive")
                                         THEN "STATUS_ENABLED" ELSE "STATUS_DISABLED"

\* A page of two users: the first active and deleted, returned enabled,
\* the second inactive and not deleted, returned disabled.
C21_Witness ==
    /\ ret.op = "userBuilder.List" /\ ret.err = Nil
    /\ Len(PageItems) = 2 /\ Len(ret.result) = 2
    /\ Flag(PageItems[1], "isActive") /\ Flag(PageItems[1], "isDeleted")
    /\ ret.result[1].Status = "STATUS_ENABLED"
    /\ ~Flag(PageItems[2], "isActive") /\ ~Flag(PageItems[2], "isDeleted")
    /\ ret.result[2].Status = "STATUS_DISABLED"

\* The resource a call that does no paging was asked about: the one the
\* host named, or in a full sync one of the resources listed.
AskedAbout(resource) ==
    IF Len(ret.args) = 2 THEN resource = ret.args[2]
    ELSE \E i \in 1..Len(drv.acc) : resource = drv.acc[i]

\* C22: roleBuilder.Entitlements returns, for every role resource and every
\* token, exactly one entitlement with slug "member", attached to that role
\* and grantable to users, with the empty token and no error, and sends no
\* request.
C22_OneMemberEntitlement ==
    /\ [](ret.op = "roleBuilder.Entitlements" =>
            /\ Len(ret.result) = 1
            /\ ret.result[1].Slug = "member"
            /\ ret.result[1].GrantableTo = <<"user">>
            /\ ret.result[1].Resource.Id.ResourceType = "role"
            /\ AskedAbout(ret.result[1].Resource)
            /\ ret.next = Empty /\ ret.err = Nil
            /\ ret.reqs = << >>)
    /\ [][ret'.op = "roleBuilder.Entitlements" /\ ret' # ret => tally' = tally]_vars

\* The entitlement of the role with id 2, asked for with a token.
C22_Witness ==
    /\ ret.op = "roleBuilder.Entitlements"
    /\ Len(ret.args) = 2 /\ ret.args[1].Token # Empty
    /\ ret.args[2].Id.Resource = <<"2">>
    /\ Len(ret.result) = 1 /\ ret.result[1].Resource = ret.args[2]

\* C23: userBuilder.Entitlements and userBuilder.Grants return no items,
\* the empty token and no error for every resource and every token, and
\* send no request.
C23_UsersHaveNone ==
    /\ [](ret.op \in {"userBuilder.Entitlements", "userBuilder.Grants"} =>
            /\ ret.result = Nil
            /\ ret.next = Empty /\ ret.err = Nil
            /\ ret.reqs = << >>)
    /\ [][ret'.op \in {"userBuilder.Entitlements", "userBuilder.Grants"} /\ ret' # ret
             => tally' = tally]_vars

\* The grants of a listed user, asked for with a token, are none.
C23_Witness ==
    /\ ret.op = "userBuilder.Grants"
    /\ Len(ret.args) = 2 /\ ret.args[1].Token # Empty
    /\ ret.args[2].Id.ResourceType = "user"
    /\ ret.result = Nil

(***************************************************************************)
(* The options a paginated accessor hands back                             *)
(***************************************************************************)
\* The @nextLink of the response the last call received, empty when the
\* body has none.
ResponseLink ==
    IF ret.resps # << >> /\ ret.resps[1].Body.t = "object"
       /\ "@nextLink" \in DOMAIN ret.resps[1].Body.o
       /\ ret.resps[1].Body.o["@nextLink"].t = "string"
    THEN ret.resps[1].Body.o["@nextLink"].s
    ELSE Empty

\* The caller's options, the zero options for a caller that passed nil.
CallerOptions ==
    IF ret.args = Nil THEN PaginationOptions(0, 0, Empty, Empty, Empty) ELSE ret.args[1]

\* C24: a paginated accessor that succeeds returns a result and non-nil
\* options whose NextLink is the @nextLink of the response, empty when the
\* response has none, and whose Top, Skip, OrderBy and Filter are the
\* caller's, zero for a nil caller; one that fails returns a nil result and
\* the caller's options as they were, and leaves the caller's object as it
\* was.
C24_OptionsReturned ==
    /\ [](ret.op \in PaginatedOps =>
            IF ret.err = Nil
            THEN /\ ret.result # Nil
                 /\ ret.next # Nil
                 /\ ret.next[1] = [CallerOptions EXCEPT !.NextLink = ResponseLink]
            ELSE /\ ret.result = Nil
                 /\ ret.next = ret.args)
    /\ [][(tally'.calls = tally.calls + 1 /\ ret'.op \in PaginatedOps /\ ret'.err # Nil)
             => (ret'.args = options /\ options' = options)]_vars

\* A caller whose options carry a link and Top 2 met a response with an
\* error status: the result is nil and the options came back with the link
\* in place.
C24_Witness ==
    /\ ret.op = "GetPermissions"
    /\ ret.args # Nil /\ ret.args[1].NextLink # Empty /\ ret.args[1].Top = 2
    /\ ret.err # Nil /\ ret.resps # << >> /\ ret.resps[1].StatusCode = 500
    /\ ret.result = Nil
    /\ ret.next = ret.args /\ options = ret.args

(***************************************************************************)
(* Where the credentials go                                                *)
(***************************************************************************)
\* The host the client was configured with.
BaseHost(c) == UrlParse(c.baseURL).u.Host

\* The last call succeeded for a caller without a link, and the next call
\* is the same accessor with the options that call handed back: the link,
\* if any, is the server's.
FollowsServerLink ==
    /\ tally'.calls = tally.calls + 1
    /\ ret.op \in PaginatedOps /\ ret.err = Nil
    /\ ret.args # Nil /\ ret.args[1].NextLink = Empty
    /\ ret'.op = ret.op /\ ret'.args = ret.next

\* C25: every request that carries the Authorization header goes to the
\* host of the client's base URL, also when the call follows an @nextLink
\* the server supplied: a link naming another host does not make the client
\* send its credentials there.
C25_CredentialsStayHome ==
    [][FollowsServerLink =>
          \A i \in 1..Len(ret'.reqs) :
              "Authorization" \in DOMAIN ret'.reqs[i].Header =>
                  ret'.reqs[i].URL.Host = BaseHost(client)]_vars

(***************************************************************************)
(* A caller of the client walks a list of the test server: it starts from  *)
(* fresh options and calls the accessor again with the options handed back *)
(* until they carry no link or the call fails.                             *)
(***************************************************************************)
\* Most users the test server holds in a walk, and the largest page asked for.
MaxWalkUsers == 4
MaxTop == 3

WalkInit ==
    /\ client = AddCredentials(NewAvalaraClient(S("test")), TestUser, TestPass)
    /\ options = Nil
    /\ rt \in {TestServer(allRoles, SubSeq(allUsers, 1, n)) : n \in 0..MaxWalkUsers}
    /\ ret = NoCall
    /\ lastCreds = <<[username |-> TestUser, password |-> TestPass]>>
    /\ drv = Idle
    /\ run = NotRun
    /\ conc = NoProcs
    /\ tally = NoTraffic

\* The caller starts a walk of the users or of the permissions with a page
\* size of its choice.
WalkStart ==
    /\ drv.phase = "idle"
    /\ \E kind \in {"GetUsers", "GetPermissions"}, top \in 1..MaxTop :
           /\ drv' = [Idle EXCEPT !.phase = "run", !.kind = kind]
           /\ options' = <<PaginationOptions(top, 0, Empty, Empty, Empty)>>
    /\ UNCHANGED <<client, rt, ret, lastCreds, run, conc, tally>>

\* The walk after a call: the items of the page are added, and the walk is
\* over when the call failed or the options came back without a link.
Walked ==
    [drv EXCEPT !.phase = IF ret'.err # Nil THEN "failed"
                          ELSE IF NextPageToken(ret'.next) = Empty THEN "done" ELSE "run",
                !.token = NextPageToken(ret'.next),
                !.acc = IF ret'.err # Nil THEN @ ELSE @ \o ret'.result[1].Value,
                !.calls = @ + 1,
                !.seen = Requested]

WalkUsers ==
    /\ Running("GetUsers")
    /\ ret' = Returned("GetUsers", options, GetUsers(client, options, rt))
    /\ options' = AfterCall
    /\ drv' = Walked
    /\ tally' = Tallied
    /\ UNCHANGED <<client, rt, lastCreds, run, conc>>

WalkPermissions ==
    /\ Running("GetPermissions")
    /\ ret' = Returned("GetPermissions", options, GetPermissions(client, options, rt))
    /\ options' = AfterCall
    /\ drv' = Walked
    /\ tally' = Tallied
    /\ UNCHANGED <<client, rt, lastCreds, run, conc>>

WalkNext ==
    \/ WalkStart
    \/ WalkUsers
    \/ WalkPermissions

WalkSpec == WalkInit /\ [][WalkNext]_vars

\* No item occurs twice in the sequence.
EachOnce(items) == \A i, j \in 1..Len(items) : i # j => items[i] # items[j]

\* C26: a walk of the permissions of the test server, from fresh options
\* and along each returned link, ends after finitely many requests and
\* returns each permission exactly once: no permission is returned twice
\* and no URL is requested twice.
C26_PermissionsOnce ==
    drv.kind = "GetPermissions" => (EachOnce(drv.acc) /\ NoPageTwice(drv.seen))

\* The requests a walk of n users in pages of top takes.
Pages(n, top) == IF n = 0 THEN 1 ELSE (n + top - 1) \div top

\* The $skip of the request last sent, 0 when it names none.
RequestedSkip == AtoiOrZero(ValuesGet(UrlQuery(ret.reqs[1].URL), <<"$", "skip">>))

\* C27: a walk of the users of the test server from skip 0 along each
\* returned @nextLink, for every page size top >= 1 and every number of
\* users, ends after ceil(n / top) requests (one for no users), returns
\* every user once in the server's order, and never asks for a skip beyond
\* the number of users, so the server's slice stays within bounds and no
\* call fails.
C27_UserWalk ==
    (drv.kind = "GetUsers" /\ drv.calls > 0) =>
        /\ ret.err = Nil
        /\ Len(ret.reqs) = 1 /\ RequestedSkip <= Len(rt.users)
        /\ drv.calls <= Pages(Len(rt.users), options[1].Top)
        /\ drv.phase = "run" <=> drv.calls < Pages(Len(rt.users), options[1].Top)
        /\ drv.phase = "done" <=> drv.calls = Pages(Len(rt.users), options[1].Top)
        /\ NoPageTwice(drv.seen)
        /\ Len(drv.acc) <= Len(rt.users)
        /\ \A i \in 1..Len(drv.acc) :
               /\ drv.acc[i].ID = rt.users[i].ID
               /\ drv.acc[i].UserName = rt.users[i].UserName
        /\ drv.phase = "done" => Len(drv.acc) = Len(rt.users)

\* Four users walked in pages of three: two requests, the second from
\* skip 3, and the four users in order.
C27_Witness ==
    /\ drv.kind = "GetUsers" /\ drv.phase = "done"
    /\ Len(rt.users) = 4 /\ options[1].Top = 3
    /\ drv.calls = 2 /\ RequestedSkip = 3
    /\ [i \in 1..Len(drv.acc) |-> drv.acc[i].ID] = <<12345, 67890, 13579, 24680>>

(***************************************************************************)
(* Error bodies whose details are a list                                   *)
(***************************************************************************)
\* The error object of the response the last call received.
ErrorObject == JField(ret.resps[1].Body, "error")

\* The response has an error status and the documented error body, its
\* details a list of objects as sendErrorResponse writes them.
DetailsListError ==
    /\ Answered
    /\ ~InSuccessRange(ret.resps[1].StatusCode)
    /\ JText(JField(ErrorObject, "code")) # Empty
    /\ JField(ErrorObject, "details").t = "array"
    /\ \A i \in 1..Len(JField(ErrorObject, "details").a) :
           JField(ErrorObject, "details").a[i].t = "object"

\* C28: an error response whose body has the documented shape with details
\* given as a list of objects reaches the caller as an AvalaraError with
\* the body's code, not as the generic status-code error.
C28_DetailsListTyped ==
    DetailsListError =>
        /\ AsAvalaraError(ret.err) # Nil
        /\ AsAvalaraError(ret.err)[1].Code = JText(JField(ErrorObject, "code"))

(***************************************************************************)
(* Grants and the users they name                                          *)
(***************************************************************************)
\* The resource id of a user as the server wrote the user on the page.
UserIdOf(item) == [ResourceType |-> "user", Resource |-> Itoa(item.o["id"].n)]

\* C29: the principal of every grant roleBuilder.Grants returns is a user
\* resource id, type user and the decimal user id, the id userBuilder.List
\* gives the same upstream user; in a sync every grant names a user
\* resource the user syncer emitted.
C29_GrantsNameListedUsers ==
    /\ (ret.op = "roleBuilder.Grants" /\ ret.err = Nil) =>
           \A i \in 1..Len(ret.result) :
               \E j \in 1..Len(PageItems) :
                   /\ ret.result[i].Principal.Id = UserIdOf(PageItems[j])
                   /\ ret.result[i].Principal.Id
                          = userListReturn(Nil, GetUsers(client, Nil, MockTransport(ret.resps[1])))
                                .result[j].Id
    /\ (drv.kind = "sync" /\ drv.stage = "grants") =>
           \A i \in 1..Len(drv.grants) :
               \E j \in 1..Len(drv.acc) :
                   /\ drv.acc[j].Id.ResourceType = "user"
                   /\ drv.acc[j].Id = drv.grants[i].Principal.Id

\* A sync over two users and two roles ended with two grants, each to a
\* user the sync listed.
C29_Witness ==
    /\ drv.kind = "sync" /\ drv.phase = "done" /\ rt.mode = "api"
    /\ Len(drv.grants) = 2
    /\ drv.grants[1].Principal.Id = [ResourceType |-> "user", Resource |-> <<"2">>]
    /\ drv.grants[2].Principal.Id = [ResourceType |-> "user", Resource |-> <<"1">>]
    /\ drv.acc[1].Id = drv.grants[2].Principal.Id
    /\ drv.acc[2].Id = drv.grants[1].Principal.Id

(***************************************************************************)
(* The environment the configuration accepts and the one the client takes  *)
(***************************************************************************)
\* The base URL of the environment ValidateConfig recognizes in a string
\* it accepts.
RecognizedBaseURL(environment) ==
    IF ToLower(environment) = S("sandbox") THEN SandboxBaseURL ELSE ProductionBaseURL

\* C30: for every environment string ValidateConfig accepts,
\* NewAvalaraClient selects the environment ValidateConfig recognized: a
\* string accepted as sandbox in any letter case gives the sandbox base
\* URL and one accepted as production the production base URL.
C30_SameEnvironment ==
    (Checked /\ run.phase # "rejected") =>
        /\ ValidateConfig(run.username, run.password, run.environment) = Nil
        /\ NewAvalaraClient(run.environment).baseURL = RecognizedBaseURL(run.environment)
        /\ client.baseURL = RecognizedBaseURL(run.environment)

=============================================================================
